---- MODULE Spec2Model ----
(***************************************************************************)
(* A model of the axo workcell: Experiment.make_batch (batch synthesis,    *)
(* the spectrum scheduler and the three per-tool Well views of each vial), *)
(* the Syringe / DoubleSyringe plunger channels, the lid and override      *)
(* protocol of Tool, and the Spectrometer's reading action.                *)
(*                                                                         *)
(* Time is in seconds, plunger travel in mm, volumes in mL.                *)
(***************************************************************************)
EXTENDS Integers, Sequences, FiniteSets, TLC

(***************************************************************************)
(* Program constants.                                                      *)
(***************************************************************************)
make_vial_time_mins == 6
record_spectrum_time_mins == 2
SynthPreWindowSecs == 18
DrainPreWindowSecs == 70
PollSecs == 3
DripSecs == 10
MixSettleSecs == 7
ResetSettleSecs == 5
PrimingMm == 10
WashCycles == 3
MixCycles == 2
min_range == 0

(***************************************************************************)
(* Bounds of the model.                                                    *)
(***************************************************************************)
MaxCount == 5
MaxClock == 2400
HwSecs == 40
MaxTicks == 1
MaxBatches == 2
BatchGapSecs == 600
MaxVolume == 5
WellCapacity == 4
TieDue == 400

Mins(m) == m * 60
NoTime == -1
Views == {"sy", "ssy", "spec"}
SampleSlots == {2, 5}
WellIds == {"A1", "A2", "A3"}
VialOrder == <<"A1", "A2", "A3">>
Tools == {"single_syringe", "dual_syringe", "gripper", "spectrometer"}
Drives == {"E0", "E1", "E2"}
OpSecs == {1, HwSecs}

\* The Labware object a slot's view resolves to (Experiment.init_expand).
Lab(slot, view) ==
    CASE slot = 2 /\ view = "sy"   -> "samples2_sy"
      [] slot = 2 /\ view = "ssy"  -> "samples2_ssy"
      [] slot = 2 /\ view = "spec" -> "samples2_spec"
      [] slot = 5 /\ view = "sy"   -> "samples5_sy"
      [] slot = 5 /\ view = "ssy"  -> "samples5_ssy"
      [] slot = 5 /\ view = "spec" -> "samples5_spec"
SampleLabs == { Lab(s, v) : s \in SampleSlots, v \in Views }
Labwares == {"precursors", "solvents"} \cup SampleLabs

(***************************************************************************)
(* Recipes: the JSON files make_batch is given.  Vial k of a slot is named *)
(* VialOrder[k] and asks for the volumes VialVols[k]; nvials[i] is the     *)
(* number of vials the file lists under its i-th slot key.                 *)
(***************************************************************************)
VialVols == <<[m |-> 1, o |-> 2, s |-> 1], [m |-> 2, o |-> 1, s |-> 2], [m |-> 1, o |-> 2, s |-> 2]>>
NoRecipe == [slot_names |-> <<>>, nvials |-> <<>>, interval |-> 0, maxrec |-> 0]
ScenarioA == [slot_names |-> <<2>>, nvials |-> <<2>>, interval |-> 6, maxrec |-> 3]
Recipes ==
    { ScenarioA,
      [slot_names |-> <<2>>,    nvials |-> <<2>>,    interval |-> 7,  maxrec |-> 2],
      [slot_names |-> <<2>>,    nvials |-> <<2>>,    interval |-> 10, maxrec |-> 2],
      [slot_names |-> <<2, 5>>, nvials |-> <<1, 1>>, interval |-> 7,  maxrec |-> 2],
      [slot_names |-> <<5>>,    nvials |-> <<1>>,    interval |-> 10, maxrec |-> 1] }

\* Files that name a slot without sample labware ("slot3": the solvent rack), or
\* list no vial under their first slot key.
OddRecipes ==
    { [slot_names |-> <<2, 3>>, nvials |-> <<1, 1>>, interval |-> 10, maxrec |-> 1],
      [slot_names |-> <<2, 5>>, nvials |-> <<0, 1>>, interval |-> 10, maxrec |-> 1] }

VARIABLES
    pc,          \* call stack of program points, innermost first
    status,      \* "running", "done" or "failed"
    err,         \* the exception that halted the batch
    clock,       \* datetime.now(), seconds
    file,        \* the recipe in the file given to make_batch
    exp,         \* Experiment attributes set by make_batch
    loc,         \* loop variables and arguments of the running methods
    vol,         \* Well.currentLiquidVolume, per Labware view and well
    nrt,         \* Well.num_readings_taken
    due,         \* Well.next_spectrum_recordtime (NoTime = None)
    lid,         \* Labware.has_lid_on_top
    mounted,     \* the tool whose is_active_tool is True ("none" if parked)
    plunger,     \* machine position of each extruder drive
    refs,        \* Spectrometer.dark / .white present
    csv,         \* per well-id file: the time columns written, in order
    well_recipes,\* Spectrometer.well_recipes: well-id -> slot noted
    hist,        \* what the batch, or the last plunger call, has done so far
    hw_secs,     \* how long this machine takes over one hardware operation
    config       \* the syringe configuration file read by load_config

vars == <<pc, status, err, clock, file, exp, loc, vol, nrt, due, lid, mounted,
          plunger, refs, csv, well_recipes, hist, hw_secs, config>>
ledger == <<vol, nrt, due>>
files == <<csv, well_recipes>>

(***************************************************************************)
(* Syringe configuration (tools/configs/<config>.json, read by             *)
(* load_config): the upper end of the plunger's travel in mm and the mm of *)
(* travel per mL.  BatchConfig is the one the workcell runs its batches    *)
(* with; the others are a 4 mL and a 3 mL channel.                         *)
(***************************************************************************)
BatchConfig == [max_range |-> 16, mm_to_ml |-> 2]
Configs == { BatchConfig, [max_range |-> 12, mm_to_ml |-> 3], [max_range |-> 6, mm_to_ml |-> 2] }
max_range == config.max_range
mm_to_ml == config.mm_to_ml

(***************************************************************************)
(* Machine (external contract): a relative move of one extruder drive.     *)
(***************************************************************************)
MachineMove(p, d) == p + d

(***************************************************************************)
(* Tool.lid_on_top_error_handling: passes when the flag has the expected   *)
(* value, and otherwise exactly when the operator answers the override     *)
(* prompt with yes.  The flag itself is not written.                       *)
(***************************************************************************)
LidPass(labware, expected, answer) ==
    IF lid[labware] = expected THEN TRUE ELSE answer

\* Tool.lid_on_top_error_handling puts one prompt to the operator on a mismatch.
LidAsks(labware, expected) == IF lid[labware] = expected THEN 0 ELSE 1

\* What a method returns: None, the message of a full syringe, or the float
\* mm / mm_to_ml (kept as its numerator).
NoneRet == [kind |-> "None", mm |-> 0]
MessageRet == [kind |-> "str", mm |-> 0]
VolumeRet(mm) == [kind |-> "float", mm |-> mm]

\* The result of a plunger operation: the drive's position afterwards, the
\* exception raised ("" if none), how many refills it made, what it returns,
\* how many override prompts it put to the operator and whether it moved the
\* machine's head (safe_z_movement / move_to).
Res(p, e, r, v) ==
    [pos |-> p, err |-> e, refills |-> r, ret |-> v, asked |-> 0, moved |-> FALSE]
\* The same result when the caller had already asked n prompts and moved the head.
After(res, n, m) == [res EXCEPT !.asked = @ + n, !.moved = @ \/ m]

InBounds(p) == ~(p > max_range \/ p < min_range)

(***************************************************************************)
(* Syringe.refill: lid check, aspirate to max_range, retract the priming   *)
(* distance.                                                               *)
(***************************************************************************)
\* Mutant: the refill without the priming retraction.
SyringeRefillPos_NoPriming(cur) == MachineMove(cur, max_range - cur)

SyringeRefillPos(cur) ==
    LET headroom_mm == max_range - cur
    IN  MachineMove(MachineMove(cur, headroom_mm), -PrimingMm)

SyringeRefill(p, refillLab, answer) ==
    IF ~LidPass(refillLab, FALSE, answer)
    THEN After(Res(p, "OverridableError", 0, NoneRet), LidAsks(refillLab, FALSE), FALSE)
    ELSE After(Res(SyringeRefillPos(p), "", 1, NoneRet), LidAsks(refillLab, FALSE), TRUE)

(***************************************************************************)
(* Syringe._aspirate: travel capped by the headroom; a full syringe is a   *)
(* no-op that returns a message instead of a volume.                       *)
(***************************************************************************)
SyringeAspirate(p, v) ==
    LET travel_mm   == v * mm_to_ml
        headroom_mm == max_range - p
        actual_mm   == IF travel_mm < headroom_mm THEN travel_mm ELSE headroom_mm
        end_pos     == p + actual_mm
    IN  IF actual_mm <= 0 THEN Res(p, "", 0, MessageRet)
        ELSE IF ~InBounds(end_pos) THEN Res(p, "ToolStateError", 0, NoneRet)
        ELSE Res(MachineMove(p, actual_mm), "", 0, VolumeRet(actual_mm))

\* Syringe.aspirate(vol, location): lid check, move to the well, _aspirate; the
\* method has no return statement.
SyringeAspirateAt(p, v, labw, answer) ==
    IF ~LidPass(labw, FALSE, answer)
    THEN After(Res(p, "OverridableError", 0, NoneRet), LidAsks(labw, FALSE), FALSE)
    ELSE After([SyringeAspirate(p, v) EXCEPT !.ret = NoneRet], LidAsks(labw, FALSE), TRUE)

(***************************************************************************)
(* Syringe._dispense.  refillLab = "none" stands for refill_loc = None.    *)
(* a1 answers the prompt for the sample labware, a2 the one of the refill. *)
(***************************************************************************)
SyringeDispense(p, v, sampleLab, refillLab, a1, a2) ==
    LET travel_mm == v * (-1) * mm_to_ml
        end_pos   == p + travel_mm
        n1        == LidAsks(sampleLab, FALSE)
    IN  IF ~LidPass(sampleLab, FALSE, a1)
        THEN After(Res(p, "OverridableError", 0, NoneRet), n1, FALSE)
        ELSE IF end_pos < min_range /\ refillLab = "none"
             THEN After(Res(p, "ToolStateError", 0, NoneRet), n1, FALSE)
        ELSE LET rf == IF end_pos < min_range THEN SyringeRefill(p, refillLab, a2)
                       ELSE Res(p, "", 0, NoneRet)
                 refilled_pos == rf.pos
             IN  IF rf.err # "" THEN After(rf, n1, FALSE)
                 ELSE IF refilled_pos + travel_mm < min_range
                      THEN After([rf EXCEPT !.err = "ToolStateError"], n1, TRUE)
                 ELSE After([rf EXCEPT !.pos = MachineMove(refilled_pos, travel_mm),
                                       !.ret = VolumeRet(-travel_mm)], n1, TRUE)

(***************************************************************************)
(* Syringe.mix: lid check, then num_cycles times _aspirate and _dispense   *)
(* (without a refill location).  ans[0] answers mix's own prompt, ans[k]   *)
(* the prompt of the k-th cycle's _dispense.                               *)
(***************************************************************************)
RECURSIVE MixFrom(_, _, _, _, _, _)
MixFrom(p, v, labw, ans, k, n) ==
    IF k > n THEN Res(p, "", 0, NoneRet)
    ELSE LET a == SyringeAspirate(p, v)
         IN  IF a.err # "" THEN a
             ELSE LET d == SyringeDispense(a.pos, v, labw, "none", ans[k], TRUE)
                  IN  IF d.err # "" THEN d
                      ELSE After(MixFrom(d.pos, v, labw, ans, k + 1, n), d.asked, d.moved)

SyringeMix(p, v, labw, ans, n) ==
    IF ~LidPass(labw, FALSE, ans[0])
    THEN After(Res(p, "OverridableError", 0, NoneRet), LidAsks(labw, FALSE), FALSE)
    ELSE After(MixFrom(p, v, labw, ans, 1, n), LidAsks(labw, FALSE), TRUE)

(***************************************************************************)
(* DoubleSyringe._refill and ._move_channel (one drive).  Neither looks at *)
(* a lid.                                                                  *)
(***************************************************************************)
DualRefillPos(cur) ==
    LET headroom == max_range - cur
    IN  MachineMove(MachineMove(cur, headroom), -PrimingMm)

\* DoubleSyringe.refill(drive, refill_loc): move to the reservoir, then _refill.
DualRefillAt(p) == After(Res(DualRefillPos(p), "", 1, NoneRet), 0, TRUE)

DualAspirate(p, v) ==
    LET travel_mm   == v * mm_to_ml
        headroom_mm == max_range - p
        actual_mm   == IF travel_mm < headroom_mm THEN travel_mm ELSE headroom_mm
    IN  IF actual_mm <= 0 THEN Res(p, "", 0, MessageRet)
        ELSE IF ~InBounds(p + actual_mm) THEN Res(p, "ToolStateError", 0, NoneRet)
        ELSE After(Res(MachineMove(p, actual_mm), "", 0, VolumeRet(actual_mm)), 0, TRUE)

DualDispense(p, v, hasRefill) ==
    LET travel_mm == v * mm_to_ml * (-1)
        end_pos   == p + travel_mm
    IN  IF end_pos < min_range /\ ~hasRefill THEN Res(p, "ToolStateError", 0, NoneRet)
        ELSE LET refilled_pos == IF end_pos < min_range THEN DualRefillPos(p) ELSE p
                 n == IF end_pos < min_range THEN 1 ELSE 0
             IN  IF refilled_pos + travel_mm < min_range
                 THEN After(Res(refilled_pos, "ToolStateError", n, NoneRet), 0, TRUE)
                 ELSE After(Res(MachineMove(refilled_pos, travel_mm), "", n,
                                VolumeRet(-travel_mm)), 0, TRUE)

\* DoubleSyringe.aspirate(vol, location): decorated; moves to the well and calls
\* self._aspirate(vol, s=s) without the drive argument _aspirate requires.
DualAspirateAt(p) == After(Res(p, "TypeError", 0, NoneRet), 0, TRUE)

\* DoubleSyringe.dispense(vol, location): the decorator is commented out; moves to
\* the well and calls self._dispense, which DoubleSyringe does not define.
DualDispenseAt(p) == After(Res(p, "AttributeError", 0, NoneRet), 0, TRUE)

(***************************************************************************)
(* The recipe as make_batch reads it.                                      *)
(***************************************************************************)
NumSlots == Len(exp.slot_names)
\* After a failed assert in get_recipes the object holds the new data beside
\* the slot names of the batch before; no vial is read in that state, and a
\* slot the data does not list counts no vials.
NumVialsIn(i) == IF i \in DOMAIN exp.data.nvials THEN exp.data.nvials[i] ELSE 0
SlotAt(i) == exp.slot_names[i]
IntervalSecs == Mins(exp.spectrum_record_interval_mins)
RecipeVials ==
    UNION { { <<SlotAt(i), VialOrder[k]>> : k \in 1..NumVialsIn(i) } : i \in 1..NumSlots }

(***************************************************************************)
(* Experiment.nearest_spectrum_reading.  The scan reads the sy view.  Its  *)
(* return statement sits inside the loop over slot_names, so the loop body *)
(* runs for the first slot only.  bound = FALSE stands for next_slot and   *)
(* next_vial never having been assigned.                                   *)
(***************************************************************************)
RECURSIVE NearestScan(_, _, _)
NearestScan(slot, k, acc) ==
    IF k > NumVialsIn(1) THEN acc
    ELSE LET w == VialOrder[k]
             t == due[Lab(slot, "sy")][w]
             time_diff == t - clock
         IN  IF t # NoTime /\ time_diff < acc.diff
             THEN NearestScan(slot, k + 1,
                      [diff |-> time_diff, slot |-> slot, vial |-> w, bound |-> TRUE])
             ELSE NearestScan(slot, k + 1, acc)

smallest_timediff == [diff |-> Mins(10000), slot |-> 0, vial |-> "", bound |-> FALSE]

nearest_spectrum_reading ==
    IF NumSlots = 0 THEN smallest_timediff
    ELSE NearestScan(SlotAt(1), 1, smallest_timediff)

(***************************************************************************)
(* Experiment.all_recordings_taken: every slot, every vial, spec view.     *)
(***************************************************************************)
\* Mutant: the completion check looking at the first slot only.
all_recordings_taken_first_slot ==
    \A k \in 1..NumVialsIn(1) :
        ~(nrt[Lab(SlotAt(1), "spec")][VialOrder[k]] < exp.max_spectrum_records)

all_recordings_taken ==
    \A i \in 1..NumSlots : \A k \in 1..NumVialsIn(i) :
        ~(nrt[Lab(SlotAt(i), "spec")][VialOrder[k]] < exp.max_spectrum_records)

(***************************************************************************)
(* What nearest_spectrum_reading's callers do with its result before they  *)
(* poll: unpack it, pick the labware of next_slot, read the due-time       *)
(* through the spec view and subtract the clock.                           *)
(***************************************************************************)
NearestErr(nr) ==
    IF ~nr.bound \/ nr.slot \notin SampleSlots THEN "UnboundLocalError"
    ELSE IF due[Lab(nr.slot, "spec")][nr.vial] = NoTime THEN "TypeError"
    ELSE ""

SpecDue(slot, vial) == due[Lab(slot, "spec")][vial]

(***************************************************************************)
(* Spectrometer._append_spectrum_csv: df[col] = absorbance.  A new column  *)
(* goes last; an existing one is overwritten in place.                     *)
(***************************************************************************)
\* Spectrometer._csv_path: the series of a well is the file <well_id>.csv
csv_path(well_id) == well_id

HasCol(cols, c) == \E n \in 1..Len(cols) : cols[n] = c
AppendCol(cols, c) == IF HasCol(cols, c) THEN cols ELSE Append(cols, c)

(***************************************************************************)
(* Initial state: a constructed Experiment, nothing mounted, plungers at   *)
(* the machine's zero, every Well empty and never read.                    *)
(***************************************************************************)
WellInit == [volume |-> 0, num_readings_taken |-> 0, next_spectrum_recordtime |-> NoTime]

LidConfigs == { [l \in Labwares |-> FALSE], [l \in Labwares |-> TRUE] }

ExpInit ==
    [data |-> NoRecipe, spectrum_record_interval_mins |-> 0, max_spectrum_records |-> 0,
     slot_names |-> <<>>, need_spectrum_refs |-> TRUE]

LocInit ==
    [i |-> 0, j |-> 0, next_slot |-> 0, next_vial |-> "", flag_var |-> FALSE,
     is_any_reading_taken |-> FALSE, slot |-> 0, vial_name |-> "",
     slot_from |-> 0, slot_to |-> 0]

\* hist: the vials mixed and the vials given their T0 reading in the running batch,
\* the readings its draining loop has fired, the number of the batch, the clock
\* ticks that fell inside record_spectrum's due-time writes, and the last call of
\* a channel script: its method, drive, target labware, volume and refill
\* location, the position a refill started from, the successful refills in a row,
\* and what the call did (prompts asked, head moved, refills made, value returned);
\* lids_on: the labware flags said "lid on" when the run started.
\* captures: the reference captures made so far; dispensed: the dispenses into
\* vials of the running batch; primed: the refills fill_dual_syringe made in it.
\* unread: for each vial, the vials that had a due-time when it was last read and
\* have not been read since; records: the readings collect_spectrum has stored
\* for each vial; rewrites: the times record_spectrum has written its due-time.
HistInit ==
    [mixed |-> {}, t0 |-> {}, drain |-> 0, batch |-> 1, ticks |-> 0, lids_on |-> FALSE,
     op |-> "", drive |-> "", lab |-> "", vol |-> 0, refill_loc |-> "none",
     before |-> 0, streak |-> 0,
     asked |-> 0, moved |-> FALSE, refills |-> 0, ret |-> NoneRet,
          captures |-> 0, dispensed |-> {}, primed |-> [d \in {"E0", "E1"} |-> 0],
     unread |-> [sv \in SampleSlots \X WellIds |-> {}],
     records |-> [sv \in SampleSlots \X WellIds |-> 0],
     rewrites |-> [sv \in SampleSlots \X WellIds |-> 0]]

InitWith(recipe_files) ==
    /\ pc = <<"mb_load">>
    /\ status = "running"
    /\ err = ""
    /\ clock = 0
    /\ file \in recipe_files
    /\ exp = ExpInit
    /\ loc = LocInit
    /\ vol = [l \in SampleLabs |-> [w \in WellIds |-> WellInit.volume]]
    /\ nrt = [l \in SampleLabs |-> [w \in WellIds |-> WellInit.num_readings_taken]]
    /\ due = [l \in SampleLabs |-> [w \in WellIds |-> WellInit.next_spectrum_recordtime]]
    /\ lid \in LidConfigs
    /\ mounted = "none"
    /\ plunger = [d \in Drives |-> 0]
    /\ refs \in BOOLEAN
    /\ csv = [w \in WellIds |-> <<>>]
    /\ well_recipes = [w \in WellIds |-> 0]
    /\ hist = [HistInit EXCEPT !.lids_on = \A l \in Labwares : lid[l]]
    /\ hw_secs \in OpSecs
    /\ config = BatchConfig

\* make_batch is given a well-formed recipe file; or any file.
Init == InitWith(Recipes)
OddInit == InitWith(Recipes \cup OddRecipes)

(***************************************************************************)
(* Control: the running method is at pc[1]; a call pushes the callee's     *)
(* entry above the point to return to; an exception halts the batch where  *)
(* it is raised (make_batch catches nothing).                              *)
(***************************************************************************)
At(l) == status = "running" /\ pc # <<>> /\ pc[1] = l
Then(labels) == labels \o Tail(pc)
Outcome(e, nextpc) ==
    /\ status' = IF e = "" THEN "running" ELSE "failed"
    /\ err' = e
    /\ pc' = IF e = "" THEN nextpc ELSE pc

\* requires_active_tool
NeedTool(t) == IF mounted = t THEN "" ELSE "ToolStateError"
FirstErr(e1, e2) == IF e1 # "" THEN e1 ELSE e2

\* time.sleep and the time a hardware operation takes
CanWait(n) == clock + n <= MaxClock

\* "if <labware>.has_lid_on_top == <cond>: self.gripper_pick_and_place(a, b)",
\* followed by the statements at cont.
LidStep(lbl, labware, cond, a, b, cont) ==
    /\ At(lbl)
    /\ IF lid[labware] = cond
       THEN /\ loc' = [loc EXCEPT !.slot_from = a, !.slot_to = b]
            /\ Outcome("", Then(<<"gpp_pickup">> \o cont))
       ELSE /\ loc' = loc
            /\ Outcome("", Then(cont))
    /\ UNCHANGED <<clock, file, exp, vol, nrt, due, lid, mounted, plunger, refs, csv, well_recipes, hist, hw_secs, config>>

\* Machine.pickup_tool(tool) / Machine.park_tool() (external contract)
PickupStep(lbl, tool, next) ==
    /\ At(lbl)
    /\ mounted' = tool
    /\ Outcome("", Then(<<next>>))
    /\ UNCHANGED <<clock, file, exp, loc, vol, nrt, due, lid, plunger, refs, csv, well_recipes, hist, hw_secs, config>>

ParkStep(lbl, cont) ==
    /\ At(lbl)
    /\ mounted' = "none"
    /\ Outcome("", Then(cont))
    /\ UNCHANGED <<clock, file, exp, loc, vol, nrt, due, lid, plunger, refs, csv, well_recipes, hist, hw_secs, config>>

(***************************************************************************)
(* Experiment.make_batch                                                   *)
(***************************************************************************)
\* Read the file, store its global parameters, assert the precondition and
\* parse the slot names.
PreconditionHolds(interval) == interval > make_vial_time_mins

MB_Load ==
    /\ At("mb_load")
    /\ exp' = [exp EXCEPT !.data = file,
                          !.spectrum_record_interval_mins = file.interval,
                          !.max_spectrum_records = file.maxrec,
                          !.slot_names = IF PreconditionHolds(file.interval)
                                         THEN file.slot_names ELSE @]
    /\ Outcome(IF PreconditionHolds(file.interval) THEN "" ELSE "AssertionError",
               Then(<<"mb_save">>))
    /\ UNCHANGED <<clock, file, loc, vol, nrt, due, lid, mounted, plunger, refs, csv, well_recipes, hist, hw_secs, config>>

\* save_vial_recipes: record_mof_recipe(well_id = vial_name, ..., additional_notes =
\* slot_name) for every vial of every slot, in order; a later slot's entry for the
\* same well-id replaces the earlier one.
MB_SaveRecipes ==
    /\ At("mb_save")
    /\ well_recipes' = [w \in WellIds |->
                          LET holders == { i \in 1..NumSlots :
                                             \E k \in 1..NumVialsIn(i) : VialOrder[k] = w }
                          IN  IF holders # {}
                              THEN SlotAt(CHOOSE i \in holders : \A j \in holders : j <= i)
                              ELSE well_recipes[w]]
    /\ Outcome("", Then(<<"mb_refs">>))
    /\ UNCHANGED <<clock, file, exp, loc, vol, nrt, due, lid, mounted, plunger, refs, csv, hist, hw_secs, config>>

\* Mutant: the metal precursor goes into the vials before the solvent.
BatchBody_MetalFirst == <<"fd_lid", "dm_lid", "ds_lid", "mb_loop">>

\* The statements of make_batch from fill_dual_syringe() to the loop over the vials.
BatchBody == <<"fd_lid", "ds_lid", "dm_lid", "mb_loop">>

MB_Refs ==
    /\ At("mb_refs")
    /\ Outcome("", IF exp.need_spectrum_refs THEN Then(<<"rr_lid", "mb_refs_done">>)
                   ELSE Then(BatchBody))
    /\ UNCHANGED <<clock, file, exp, loc, vol, nrt, due, lid, mounted, plunger, refs, csv, well_recipes, hist, hw_secs, config>>

\* Mutant: need_spectrum_refs stays up after the capture.
MB_RefsDone_KeepFlag ==
    /\ At("mb_refs_done")
    /\ exp' = exp
    /\ Outcome("", Then(BatchBody))
    /\ UNCHANGED <<clock, file, loc, vol, nrt, due, lid, mounted, plunger, refs, csv, well_recipes, hist, hw_secs, config>>

MB_RefsDone ==
    /\ At("mb_refs_done")
    /\ exp' = [exp EXCEPT !.need_spectrum_refs = FALSE]
    /\ Outcome("", Then(BatchBody))
    /\ UNCHANGED <<clock, file, loc, vol, nrt, due, lid, mounted, plunger, refs, csv, well_recipes, hist, hw_secs, config>>

MB_Loop ==
    /\ At("mb_loop")
    /\ loc' = [loc EXCEPT !.i = 1, !.j = 1]
    /\ Outcome("", Then(<<"mb_vial">>))
    /\ UNCHANGED <<clock, file, exp, vol, nrt, due, lid, mounted, plunger, refs, csv, well_recipes, hist, hw_secs, config>>

\* Next vial of the recipe: make_vial, then record_spectrum_if_needed; after the
\* last one reset_dual_syringe.
MB_NextVial ==
    /\ At("mb_vial")
    /\ IF loc.i > NumSlots
       THEN /\ loc' = loc
            /\ Outcome("", Then(<<"rd_lid", "mb_relid">>))
       ELSE IF loc.j > NumVialsIn(loc.i)
       THEN /\ loc' = [loc EXCEPT !.i = @ + 1, !.j = 1]
            /\ Outcome("", pc)
       ELSE /\ loc' = [loc EXCEPT !.slot = SlotAt(loc.i), !.vial_name = VialOrder[loc.j]]
            /\ Outcome("", Then(<<"mv_pickup", "rn_init", "mb_sleep">>))
    /\ UNCHANGED <<clock, file, exp, vol, nrt, due, lid, mounted, plunger, refs, csv, well_recipes, hist, hw_secs, config>>

MB_Sleep ==
    /\ At("mb_sleep")
    /\ IF loc.is_any_reading_taken = FALSE
       THEN /\ CanWait(Mins(record_spectrum_time_mins))
            /\ clock' = clock + Mins(record_spectrum_time_mins)
       ELSE clock' = clock
    /\ loc' = [loc EXCEPT !.j = @ + 1]
    /\ Outcome("", Then(<<"mb_vial">>))
    /\ UNCHANGED <<file, exp, vol, nrt, due, lid, mounted, plunger, refs, csv, well_recipes, hist, hw_secs, config>>

MB_Relid == LidStep("mb_relid", "precursors", FALSE, 4, 1, <<"rt_loop", "mb_done">>)

MB_Done ==
    /\ At("mb_done")
    /\ status' = "done"
    /\ UNCHANGED <<pc, err, clock, file, exp, loc, vol, nrt, due, lid, mounted, plunger, refs, csv, well_recipes, hist, hw_secs, config>>

\* make_batch has returned and is called again, on the same Experiment, with a
\* recipe file, at once or BatchGapSecs later: its locals are fresh, everything
\* else is as the last batch left it.
MB_Again ==
    /\ status = "done"
    /\ hist.batch < MaxBatches
    /\ \E gap \in {0, BatchGapSecs} : CanWait(gap) /\ clock' = clock + gap
    /\ file' \in Recipes
    /\ pc' = <<"mb_load">>
    /\ status' = "running"
    /\ loc' = LocInit
    /\ hist' = [hist EXCEPT !.mixed = {}, !.t0 = {}, !.drain = 0, !.batch = @ + 1,
                             !.dispensed = {}, !.primed = HistInit.primed]
    /\ UNCHANGED <<err, exp, vol, nrt, due, lid, mounted, plunger, refs, csv, well_recipes, hw_secs, config>>

(***************************************************************************)
(* Experiment.gripper_pick_and_place                                       *)
(***************************************************************************)
GPP_Pickup == PickupStep("gpp_pickup", "gripper", "gpp_move")

\* VacuumGripper.pick_and_place: grip at the first location, drop at the second.
GPP_PickAndPlace ==
    /\ At("gpp_move")
    /\ Outcome(NeedTool("gripper"), Then(<<"gpp_park">>))
    /\ UNCHANGED <<clock, file, exp, loc, vol, nrt, due, lid, mounted, plunger, refs, csv, well_recipes, hist, hw_secs, config>>

GPP_Park == ParkStep("gpp_park", <<>>)

(***************************************************************************)
(* Experiment.record_spectrum_refs                                         *)
(***************************************************************************)
RR_Lid == LidStep("rr_lid", "solvents", TRUE, 3, 4, <<"rr_pickup">>)

RR_Pickup == PickupStep("rr_pickup", "spectrometer", "rr_pos")

\* Spectrometer.position_probe
PositionProbe(labware, answer) ==
    FirstErr(NeedTool("spectrometer"),
             IF LidPass(labware, FALSE, answer) THEN "" ELSE "OverridableError")

RR_Position ==
    /\ At("rr_pos")
    /\ \E answer \in BOOLEAN : Outcome(PositionProbe("solvents", answer), Then(<<"rr_capture">>))
    /\ UNCHANGED <<clock, file, exp, loc, vol, nrt, due, lid, mounted, plunger, refs, csv, well_recipes, hist, hw_secs, config>>

\* set_dark, set_white, configure_device, each after the operator's key press
RR_Capture ==
    /\ At("rr_capture")
    /\ refs' = TRUE
    /\ hist' = [hist EXCEPT !.captures = @ + 1]
    /\ Outcome("", Then(<<"rr_park">>))
    /\ UNCHANGED <<clock, file, exp, loc, vol, nrt, due, lid, mounted, plunger, csv, well_recipes, hw_secs, config>>

RR_Park == ParkStep("rr_park", <<>>)

(***************************************************************************)
(* Experiment.fill_dual_syringe                                            *)
(***************************************************************************)
FD_Lid == LidStep("fd_lid", "precursors", TRUE, 1, 4, <<"fd_pickup">>)

FD_Pickup == PickupStep("fd_pickup", "dual_syringe", "fd_refill0")

\* DoubleSyringe.refill(drive, refill_loc)
DualRefill(drive) == [plunger EXCEPT ![drive] = DualRefillPos(plunger[drive])]

FD_Refill0 ==
    /\ At("fd_refill0")
    /\ plunger' = IF NeedTool("dual_syringe") = "" THEN DualRefill("E0") ELSE plunger
    /\ hist' = IF NeedTool("dual_syringe") = ""
               THEN [hist EXCEPT !.primed["E0"] = @ + 1] ELSE hist
    /\ Outcome(NeedTool("dual_syringe"), Then(<<"fd_refill1">>))
    /\ UNCHANGED <<clock, file, exp, loc, vol, nrt, due, lid, mounted, refs, csv, well_recipes, hw_secs, config>>

\* Mutant: the second channel is not refilled.
FD_Refill1_Skipped ==
    /\ At("fd_refill1")
    /\ CanWait(DripSecs)
    /\ plunger' = plunger
    /\ clock' = IF NeedTool("dual_syringe") = "" THEN clock + DripSecs ELSE clock
    /\ hist' = hist
    /\ Outcome(NeedTool("dual_syringe"), Then(<<"fd_park">>))
    /\ UNCHANGED <<file, exp, loc, vol, nrt, due, lid, mounted, refs, csv, well_recipes, hw_secs, config>>

FD_Refill1 ==
    /\ At("fd_refill1")
    /\ CanWait(DripSecs)
    /\ plunger' = IF NeedTool("dual_syringe") = "" THEN DualRefill("E1") ELSE plunger
    /\ clock' = IF NeedTool("dual_syringe") = "" THEN clock + DripSecs ELSE clock
    /\ hist' = IF NeedTool("dual_syringe") = ""
               THEN [hist EXCEPT !.primed["E1"] = @ + 1] ELSE hist
    /\ Outcome(NeedTool("dual_syringe"), Then(<<"fd_park">>))
    /\ UNCHANGED <<file, exp, loc, vol, nrt, due, lid, mounted, refs, csv, well_recipes, hw_secs, config>>

FD_Park == ParkStep("fd_park", <<"fd_relid">>)

FD_Relid == LidStep("fd_relid", "precursors", FALSE, 4, 1, <<>>)

(***************************************************************************)
(* Tool.update_currentLiquidVolume on one Well.                            *)
(***************************************************************************)
UpdatedVolume(v, volume, is_dispense) == IF is_dispense THEN v + volume ELSE v - volume

(***************************************************************************)
(* Tool.check_liquid_level on one Well holding cur mL of totalLiquidVolume *)
(* total: the operator is asked when the dispense does not fit or the      *)
(* aspirate asks for more than there is; whenever the choice stands at     *)
(* True (its default, or the operator's answer) an aspirate sets the       *)
(* Well's volume to its total; a refusal raises the error.                 *)
(***************************************************************************)
LevelFits(cur, total, target_volume, is_dispense) ==
    IF is_dispense THEN cur + target_volume <= total ELSE cur - target_volume >= 0

\* Mutant: a confirmed aspirate leaves the Well's volume as it was.
check_liquid_level_NoReset(cur, total, target_volume, is_dispense, answer) ==
    LET fits == LevelFits(cur, total, target_volume, is_dispense)
        bool_override_choice == IF fits THEN TRUE ELSE answer
    IN  [err   |-> IF bool_override_choice THEN "" ELSE "OverridableError",
         vol   |-> cur,
         asked |-> IF fits THEN 0 ELSE 1]

check_liquid_level(cur, total, target_volume, is_dispense, answer) ==
    LET fits == LevelFits(cur, total, target_volume, is_dispense)
        bool_override_choice == IF fits THEN TRUE ELSE answer
    IN  [err   |-> IF bool_override_choice THEN "" ELSE "OverridableError",
         vol   |-> IF bool_override_choice /\ ~is_dispense THEN total ELSE cur,
         asked |-> IF fits THEN 0 ELSE 1]

\* The two update_currentLiquidVolume calls that follow a dispense into a vial:
\* the Wells of the views a and b of the vial are updated.
UpdateTwoViews(slot, w, a, b, volume) ==
    [l \in SampleLabs |->
        IF l = Lab(slot, a) \/ l = Lab(slot, b)
        THEN [vol[l] EXCEPT ![w] = UpdatedVolume(@, volume, TRUE)]
        ELSE vol[l]]

\* The labware a loop over slot_names has bound for slot i: slot 2 or 5 rebinds
\* the three locals, any other slot leaves them as the last iteration set them.
RECURSIVE BoundSlot(_)
BoundSlot(i) ==
    IF i = 0 THEN 0
    ELSE IF SlotAt(i) \in SampleSlots THEN SlotAt(i) ELSE BoundSlot(i - 1)

(***************************************************************************)
(* Experiment.dispense_solvent_all_vials                                   *)
(***************************************************************************)
DS_Lid == LidStep("ds_lid", "solvents", TRUE, 3, 4, <<"ds_pickup">>)

DS_Pickup ==
    /\ At("ds_pickup")
    /\ mounted' = "single_syringe"
    /\ loc' = [loc EXCEPT !.i = 1, !.j = 1]
    /\ Outcome("", Then(<<"ds_loop">>))
    /\ UNCHANGED <<clock, file, exp, vol, nrt, due, lid, plunger, refs, csv, well_recipes, hist, hw_secs, config>>

DS_Loop ==
    /\ At("ds_loop")
    /\ IF loc.i > NumSlots
       THEN loc' = loc /\ Outcome("", Then(<<"ds_reset">>))
       ELSE IF loc.j > NumVialsIn(loc.i)
       THEN loc' = [loc EXCEPT !.i = @ + 1, !.j = 1] /\ Outcome("", pc)
       ELSE loc' = loc /\ Outcome("", Then(<<"ds_disp">>))
    /\ UNCHANGED <<clock, file, exp, vol, nrt, due, lid, mounted, plunger, refs, csv, well_recipes, hist, hw_secs, config>>

\* single_syringe.dispense(solvent_vol, sample_labware_ssy[vial].top(-10),
\* refill_loc = solvents[1].top(-50)); time.sleep(10)
DS_Dispense ==
    /\ At("ds_disp")
    /\ CanWait(DripSecs)
    /\ \E a1 \in BOOLEAN, a2 \in BOOLEAN :
         LET lab == BoundSlot(loc.i)
             r == IF lab = 0 THEN Res(plunger["E2"], "UnboundLocalError", 0, NoneRet)
                  ELSE IF NeedTool("single_syringe") # ""
                  THEN Res(plunger["E2"], "ToolStateError", 0, NoneRet)
                  ELSE SyringeDispense(plunger["E2"], VialVols[loc.j].s,
                                       Lab(lab, "ssy"), "solvents", a1, a2)
         IN  /\ plunger' = [plunger EXCEPT !["E2"] = r.pos]
             /\ clock' = IF r.err = "" THEN clock + DripSecs ELSE clock
             /\ hist' = IF r.err = ""
                        THEN [hist EXCEPT !.dispensed = @ \cup {<<"solvent", lab, VialOrder[loc.j]>>}]
                        ELSE hist
             /\ Outcome(r.err, Then(<<"ds_upd">>))
    /\ UNCHANGED <<file, exp, loc, vol, nrt, due, lid, mounted, refs, csv, well_recipes, hw_secs, config>>

DS_Update ==
    /\ At("ds_upd")
    /\ vol' = UpdateTwoViews(BoundSlot(loc.i), VialOrder[loc.j], "sy", "spec", VialVols[loc.j].s)
    /\ loc' = [loc EXCEPT !.j = @ + 1]
    /\ Outcome("", Then(<<"ds_loop">>))
    /\ UNCHANGED <<clock, file, exp, nrt, due, lid, mounted, plunger, refs, csv, well_recipes, hist, hw_secs, config>>

\* Empty the syringe into solvents[1] before parking; time.sleep(5)
DS_Reset ==
    /\ At("ds_reset")
    /\ CanWait(ResetSettleSecs)
    /\ \E a1 \in BOOLEAN, a2 \in BOOLEAN :
         LET headroom_mm == plunger["E2"] - min_range
             headroom_ml == headroom_mm \div mm_to_ml
             r == IF NeedTool("single_syringe") # ""
                  THEN Res(plunger["E2"], "ToolStateError", 0, NoneRet)
                  ELSE SyringeDispense(plunger["E2"], headroom_ml, "solvents", "solvents", a1, a2)
         IN  /\ plunger' = [plunger EXCEPT !["E2"] = r.pos]
             /\ clock' = IF r.err = "" THEN clock + ResetSettleSecs ELSE clock
             /\ Outcome(r.err, Then(<<"ds_park">>))
    /\ UNCHANGED <<file, exp, loc, vol, nrt, due, lid, mounted, refs, csv, well_recipes, hist, hw_secs, config>>

\* Mutant: the single syringe is not parked before the solvent lid goes back.
DS_Park_NotParked ==
    /\ At("ds_park")
    /\ Outcome("", Then(<<"ds_relid">>))
    /\ UNCHANGED <<clock, file, exp, loc, vol, nrt, due, lid, mounted, plunger, refs, csv, well_recipes, hist, hw_secs, config>>

DS_Park == ParkStep("ds_park", <<"ds_relid">>)

DS_Relid == LidStep("ds_relid", "solvents", FALSE, 4, 3, <<>>)

(***************************************************************************)
(* Experiment.dispense_metal_precursor_all_vials                           *)
(***************************************************************************)
DM_Lid == LidStep("dm_lid", "precursors", TRUE, 1, 4, <<"dm_pickup">>)

DM_Pickup ==
    /\ At("dm_pickup")
    /\ mounted' = "dual_syringe"
    /\ loc' = [loc EXCEPT !.i = 1, !.j = 1]
    /\ Outcome("", Then(<<"dm_loop">>))
    /\ UNCHANGED <<clock, file, exp, vol, nrt, due, lid, plunger, refs, csv, well_recipes, hist, hw_secs, config>>

DM_Loop ==
    /\ At("dm_loop")
    /\ IF loc.i > NumSlots
       THEN loc' = loc /\ Outcome("", Then(<<"dm_reset">>))
       ELSE IF loc.j > NumVialsIn(loc.i)
       THEN loc' = [loc EXCEPT !.i = @ + 1, !.j = 1] /\ Outcome("", pc)
       ELSE loc' = loc /\ Outcome("", Then(<<"dm_disp">>))
    /\ UNCHANGED <<clock, file, exp, vol, nrt, due, lid, mounted, plunger, refs, csv, well_recipes, hist, hw_secs, config>>

\* dual_syringe.dispense_e0 / dispense_e1 on one drive
DualDispenseOn(drive, v) ==
    IF NeedTool("dual_syringe") # "" THEN Res(plunger[drive], "ToolStateError", 0, NoneRet)
    ELSE DualDispense(plunger[drive], v, TRUE)

\* dual_syringe.dispense_e0(metal_precursor_vol, sample_labware_sy[vial].top(-25),
\* refill_loc_e = precursors[0].top(-54)); time.sleep(10)
DM_Dispense ==
    /\ At("dm_disp")
    /\ CanWait(DripSecs)
    /\ LET r == IF BoundSlot(loc.i) = 0 THEN Res(plunger["E0"], "UnboundLocalError", 0, NoneRet)
                ELSE DualDispenseOn("E0", VialVols[loc.j].m)
       IN  /\ plunger' = [plunger EXCEPT !["E0"] = r.pos]
           /\ clock' = IF r.err = "" THEN clock + DripSecs ELSE clock
           /\ hist' = IF r.err = ""
                      THEN [hist EXCEPT !.dispensed =
                              @ \cup {<<"metal", BoundSlot(loc.i), VialOrder[loc.j]>>}]
                      ELSE hist
           /\ Outcome(r.err, Then(<<"dm_upd">>))
    /\ UNCHANGED <<file, exp, loc, vol, nrt, due, lid, mounted, refs, csv, well_recipes, hw_secs, config>>

DM_Update ==
    /\ At("dm_upd")
    /\ vol' = UpdateTwoViews(BoundSlot(loc.i), VialOrder[loc.j], "ssy", "spec", VialVols[loc.j].m)
    /\ loc' = [loc EXCEPT !.j = @ + 1]
    /\ Outcome("", Then(<<"dm_loop">>))
    /\ UNCHANGED <<clock, file, exp, nrt, due, lid, mounted, plunger, refs, csv, well_recipes, hist, hw_secs, config>>

\* Empty drive 0 into precursors[1] before parking
DualReset(drive) == DualDispenseOn(drive, (plunger[drive] - min_range) \div mm_to_ml)

DM_Reset ==
    /\ At("dm_reset")
    /\ LET r == DualReset("E0")
       IN  /\ plunger' = [plunger EXCEPT !["E0"] = r.pos]
           /\ Outcome(r.err, Then(<<"dm_park">>))
    /\ UNCHANGED <<clock, file, exp, loc, vol, nrt, due, lid, mounted, refs, csv, well_recipes, hist, hw_secs, config>>

DM_Park == ParkStep("dm_park", <<>>)

(***************************************************************************)
(* Experiment.reset_dual_syringe                                           *)
(***************************************************************************)
RD_Lid == LidStep("rd_lid", "precursors", TRUE, 1, 4, <<"rd_pickup">>)

RD_Pickup == PickupStep("rd_pickup", "dual_syringe", "rd_e0")

RD_Reset0 ==
    /\ At("rd_e0")
    /\ LET r == DualReset("E0")
       IN  /\ plunger' = [plunger EXCEPT !["E0"] = r.pos]
           /\ Outcome(r.err, Then(<<"rd_e1">>))
    /\ UNCHANGED <<clock, file, exp, loc, vol, nrt, due, lid, mounted, refs, csv, well_recipes, hist, hw_secs, config>>

RD_Reset1 ==
    /\ At("rd_e1")
    /\ LET r == DualReset("E1")
       IN  /\ plunger' = [plunger EXCEPT !["E1"] = r.pos]
           /\ Outcome(r.err, Then(<<"rd_park">>))
    /\ UNCHANGED <<clock, file, exp, loc, vol, nrt, due, lid, mounted, refs, csv, well_recipes, hist, hw_secs, config>>

RD_Park == ParkStep("rd_park", <<"rd_relid">>)

RD_Relid == LidStep("rd_relid", "precursors", FALSE, 4, 1, <<>>)

(***************************************************************************)
(* Experiment.make_vial(slot, vial_name, ...)                              *)
(***************************************************************************)
MV_Pickup == PickupStep("mv_pickup", "dual_syringe", "mv_disp")

\* dual_syringe.dispense_e1(organic_precursor_vol, sample_labware_sy[vial].top(-25),
\* refill_loc_v = precursors[0].top(-54)); time.sleep(10)
MV_Dispense ==
    /\ At("mv_disp")
    /\ \E d \in {hw_secs} :
         LET r == IF loc.slot \notin SampleSlots
                  THEN Res(plunger["E1"], "UnboundLocalError", 0, NoneRet)
                  ELSE DualDispenseOn("E1", VialVols[loc.j].o)
         IN  /\ CanWait(d + DripSecs)
             /\ plunger' = [plunger EXCEPT !["E1"] = r.pos]
             /\ clock' = IF r.err = "" THEN clock + d + DripSecs ELSE clock
             /\ hist' = IF r.err = ""
                        THEN [hist EXCEPT !.dispensed =
                                @ \cup {<<"organic", loc.slot, loc.vial_name>>}]
                        ELSE hist
             /\ Outcome(r.err, Then(<<"mv_upd">>))
    /\ UNCHANGED <<file, exp, loc, vol, nrt, due, lid, mounted, refs, csv, well_recipes, hw_secs, config>>

MV_Update ==
    /\ At("mv_upd")
    /\ vol' = UpdateTwoViews(loc.slot, loc.vial_name, "ssy", "spec", VialVols[loc.j].o)
    /\ Outcome("", Then(<<"mv_park">>))
    /\ UNCHANGED <<clock, file, exp, loc, nrt, due, lid, mounted, plunger, refs, csv, well_recipes, hist, hw_secs, config>>

MV_Park == ParkStep("mv_park", <<"mv_pickup2">>)

MV_Pickup2 == PickupStep("mv_pickup2", "single_syringe", "mv_mix")

\* mix_vol = sample_labware_ssy[vial].currentLiquidVolume / 3;
\* single_syringe.mix(mix_vol, sample_labware_ssy[vial].top(-65), num_cycles = 2);
\* time.sleep(7)
MV_Mix ==
    /\ At("mv_mix")
    /\ CanWait(MixSettleSecs)
    /\ \E ans \in [0..MixCycles -> BOOLEAN] :
         LET currentLiquidVolume == vol[Lab(loc.slot, "ssy")][loc.vial_name]
             mix_vol == currentLiquidVolume \div 3
             r == IF NeedTool("single_syringe") # ""
                  THEN Res(plunger["E2"], "ToolStateError", 0, NoneRet)
                  ELSE SyringeMix(plunger["E2"], mix_vol, Lab(loc.slot, "ssy"), ans, MixCycles)
         IN  /\ plunger' = [plunger EXCEPT !["E2"] = r.pos]
             /\ clock' = IF r.err = "" THEN clock + MixSettleSecs ELSE clock
             /\ hist' = IF r.err = ""
                        THEN [hist EXCEPT !.mixed = @ \cup {<<loc.slot, loc.vial_name>>}]
                        ELSE hist
             /\ Outcome(r.err, Then(<<"mv_park2">>))
    /\ UNCHANGED <<file, exp, loc, vol, nrt, due, lid, mounted, refs, csv, well_recipes, hw_secs, config>>

\* Park the single syringe, then self.record_spectrum(slot, vial_name): the T0 reading
MV_Park2 == ParkStep("mv_park2", <<"rs_lid1">>)

(***************************************************************************)
(* Experiment.record_spectrum(slot, vial_name)                             *)
(***************************************************************************)
RS_Lid1 ==
    /\ At("rs_lid1")
    /\ IF loc.slot \in SampleSlots
       THEN LidStep("rs_lid1", Lab(loc.slot, "spec"), TRUE, loc.slot, 4, <<"rs_lid2">>)
       ELSE /\ Outcome("UnboundLocalError", pc)
            /\ UNCHANGED <<clock, file, exp, loc, vol, nrt, due, lid, mounted, plunger, refs, csv, well_recipes, hist, hw_secs, config>>

RS_Lid2 == LidStep("rs_lid2", "solvents", TRUE, 3, 4, <<"rs_pickup">>)

RS_Pickup == PickupStep("rs_pickup", "spectrometer", "rs_count")

\* num_readings_taken += 1 on the sy, ssy and spec Well of the vial
CountedReading(n) == n + 1

\* The statement record_spectrum returns to: "rn_init" after make_vial's T0 reading,
\* "rn_after" in record_spectrum_if_needed, "rt_relid" in record_spectrum_till_end.
ReadingCalledFrom == IF Len(pc) >= 2 THEN pc[2] ELSE ""

RS_Count ==
    /\ At("rs_count")
    /\ \A v \in Views : nrt[Lab(loc.slot, v)][loc.vial_name] < MaxCount
    /\ nrt' = [l \in SampleLabs |->
                 IF \E v \in Views : l = Lab(loc.slot, v)
                 THEN [nrt[l] EXCEPT ![loc.vial_name] = CountedReading(@)]
                 ELSE nrt[l]]
    /\ hist' = [hist EXCEPT
                  !.t0 = IF ReadingCalledFrom = "rn_init"
                         THEN @ \cup {<<loc.slot, loc.vial_name>>} ELSE @,
                  !.drain = IF ReadingCalledFrom = "rt_relid" THEN @ + 1 ELSE @,
                  !.unread = [sv \in SampleSlots \X WellIds |->
                                IF sv = <<loc.slot, loc.vial_name>>
                                THEN { o \in (SampleSlots \X WellIds) \ {sv} :
                                         due[Lab(o[1], "sy")][o[2]] # NoTime }
                                ELSE @[sv] \ {<<loc.slot, loc.vial_name>>}]]
    /\ Outcome("", Then(<<"rs_collect">>))
    /\ UNCHANGED <<clock, file, exp, loc, vol, due, lid, mounted, plunger, refs, csv, well_recipes, hw_secs, config>>

\* elapsed_min as record_spectrum computes it from the spec view
ElapsedMin(slot, w) ==
    (nrt[Lab(slot, "spec")][w] - 1) * exp.spectrum_record_interval_mins

\* Spectrometer.collect_spectrum(..., save = True): position the probe, require both
\* references, acquire, append the column to the file named after the well;
\* then plot_spectrum reads that column back.
RS_Collect ==
    /\ At("rs_collect")
    /\ \E answer \in BOOLEAN, d \in {hw_secs} :
         LET e == FirstErr(PositionProbe(Lab(loc.slot, "spec"), answer),
                           IF refs THEN "" ELSE "RuntimeError")
         IN  /\ CanWait(d)
             /\ csv' = IF e = ""
                       THEN [csv EXCEPT ![csv_path(loc.vial_name)] =
                                AppendCol(@, ElapsedMin(loc.slot, loc.vial_name))]
                       ELSE csv
             /\ hist' = IF e = ""
                        THEN [hist EXCEPT !.records[<<loc.slot, loc.vial_name>>] = @ + 1]
                        ELSE hist
             /\ clock' = IF e = "" THEN clock + d ELSE clock
             /\ Outcome(e, Then(<<"rs_due">>))
    /\ UNCHANGED <<file, exp, loc, vol, nrt, due, lid, mounted, plunger, refs, well_recipes, hw_secs, config>>

\* next_spectrum_recordtime = datetime.now() + timedelta(minutes = interval), written
\* to the sy, the ssy and the spec Well in turn, each with its own datetime.now():
\* a tick of the clock may fall between two of the reads (at most MaxTicks such
\* ticks are followed in one batch).
NextRecordTime(now) == now + IntervalSecs

RS_Due ==
    /\ At("rs_due")
    /\ \E k1 \in 0..1, k2 \in 0..1 :
         /\ hist.ticks + k1 + k2 <= MaxTicks
         /\ CanWait(k1 + k2)
         /\ hist' = [hist EXCEPT !.ticks = @ + k1 + k2,
                                  !.rewrites[<<loc.slot, loc.vial_name>>] = @ + 1]
         /\ due' = [due EXCEPT
                      ![Lab(loc.slot, "sy")][loc.vial_name]   = NextRecordTime(clock),
                      ![Lab(loc.slot, "ssy")][loc.vial_name]  = NextRecordTime(clock + k1),
                      ![Lab(loc.slot, "spec")][loc.vial_name] = NextRecordTime(clock + k1 + k2)]
         /\ clock' = clock + k1 + k2
    /\ Outcome("", Then(<<"rs_wash">>))
    /\ UNCHANGED <<file, exp, loc, vol, nrt, lid, mounted, plunger, refs, csv, well_recipes, hw_secs, config>>

\* Spectrometer.wash_probe(solvents[0].top(-35), n_cycles = 3): position_probe per cycle
WashErr(ans) ==
    IF NeedTool("spectrometer") # "" THEN "ToolStateError"
    ELSE IF \A k \in 1..WashCycles : LidPass("solvents", FALSE, ans[k]) THEN ""
    ELSE "OverridableError"

RS_Wash ==
    /\ At("rs_wash")
    /\ \E ans \in [1..WashCycles -> BOOLEAN], d \in {hw_secs} :
         /\ CanWait(d)
         /\ clock' = IF WashErr(ans) = "" THEN clock + d ELSE clock
         /\ Outcome(WashErr(ans), Then(<<"rs_park">>))
    /\ UNCHANGED <<file, exp, loc, vol, nrt, due, lid, mounted, plunger, refs, csv, well_recipes, hist, hw_secs, config>>

RS_Park == ParkStep("rs_park", <<"rs_relid">>)

RS_Relid == LidStep("rs_relid", "solvents", FALSE, 4, 3, <<>>)

(***************************************************************************)
(* Experiment.record_spectrum_if_needed                                    *)
(***************************************************************************)
RN_Init ==
    /\ At("rn_init")
    /\ loc' = [loc EXCEPT !.flag_var = TRUE, !.is_any_reading_taken = FALSE]
    /\ Outcome("", Then(<<"rn_loop">>))
    /\ UNCHANGED <<clock, file, exp, vol, nrt, due, lid, mounted, plunger, refs, csv, well_recipes, hist, hw_secs, config>>

\* The reading is urgent when its margin is below the vial-creation estimate.
Urgent(timediff) == timediff < Mins(make_vial_time_mins)

RN_Loop ==
    /\ At("rn_loop")
    /\ LET nr == nearest_spectrum_reading
           e  == NearestErr(nr)
           timediff == SpecDue(nr.slot, nr.vial) - clock
       IN  IF e # ""
           THEN loc' = loc /\ Outcome(e, pc)
           ELSE IF Urgent(timediff)
           THEN /\ loc' = [loc EXCEPT !.next_slot = nr.slot, !.next_vial = nr.vial]
                /\ Outcome("", Then(<<"rn_poll">>))
           ELSE /\ loc' = [loc EXCEPT !.next_slot = nr.slot, !.next_vial = nr.vial,
                                      !.flag_var = FALSE]
                /\ Outcome("", Tail(pc))
    /\ UNCHANGED <<clock, file, exp, vol, nrt, due, lid, mounted, plunger, refs, csv, well_recipes, hist, hw_secs, config>>

\* if time_now >= next_spectrum_recordtime - pre-window: record; else: time.sleep(3)
WindowOpen(window) == clock >= SpecDue(loc.next_slot, loc.next_vial) - window

RN_PollSleep ==
    /\ At("rn_poll")
    /\ ~WindowOpen(SynthPreWindowSecs)
    /\ CanWait(PollSecs)
    /\ clock' = clock + PollSecs
    /\ UNCHANGED <<pc, status, err, file, exp, loc, vol, nrt, due, lid, mounted, plunger, refs, csv, well_recipes, hist, hw_secs, config>>

RN_Fire ==
    /\ At("rn_poll")
    /\ WindowOpen(SynthPreWindowSecs)
    /\ loc' = [loc EXCEPT !.slot = loc.next_slot, !.vial_name = loc.next_vial]
    /\ Outcome("", Then(<<"rs_lid1", "rn_after">>))
    /\ UNCHANGED <<clock, file, exp, vol, nrt, due, lid, mounted, plunger, refs, csv, well_recipes, hist, hw_secs, config>>

RN_After ==
    /\ At("rn_after")
    /\ loc' = [loc EXCEPT !.is_any_reading_taken = TRUE]
    /\ Outcome("", Then(<<"rn_loop">>))
    /\ UNCHANGED <<clock, file, exp, vol, nrt, due, lid, mounted, plunger, refs, csv, well_recipes, hist, hw_secs, config>>

(***************************************************************************)
(* Experiment.record_spectrum_till_end                                     *)
(***************************************************************************)
RT_Loop ==
    /\ At("rt_loop")
    /\ LET flag_break == all_recordings_taken
           nr == nearest_spectrum_reading
           e  == NearestErr(nr)
       IN  IF flag_break
           THEN loc' = loc /\ Outcome("", Tail(pc))
           ELSE IF e # ""
           THEN loc' = loc /\ Outcome(e, pc)
           ELSE /\ loc' = [loc EXCEPT !.next_slot = nr.slot, !.next_vial = nr.vial]
                /\ Outcome("", Then(<<"rt_poll">>))
    /\ UNCHANGED <<clock, file, exp, vol, nrt, due, lid, mounted, plunger, refs, csv, well_recipes, hist, hw_secs, config>>

RT_PollSleep ==
    /\ At("rt_poll")
    /\ ~WindowOpen(DrainPreWindowSecs)
    /\ CanWait(PollSecs)
    /\ clock' = clock + PollSecs
    /\ UNCHANGED <<pc, status, err, file, exp, loc, vol, nrt, due, lid, mounted, plunger, refs, csv, well_recipes, hist, hw_secs, config>>

RT_Fire ==
    /\ At("rt_poll")
    /\ WindowOpen(DrainPreWindowSecs)
    /\ loc' = [loc EXCEPT !.slot = loc.next_slot, !.vial_name = loc.next_vial]
    /\ Outcome("", Then(<<"rs_lid1", "rt_relid">>))
    /\ UNCHANGED <<clock, file, exp, vol, nrt, due, lid, mounted, plunger, refs, csv, well_recipes, hist, hw_secs, config>>

RT_Relid ==
    /\ At("rt_relid")
    /\ LidStep("rt_relid", Lab(loc.next_slot, "spec"), FALSE, 4, loc.next_slot, <<"rt_loop">>)

(***************************************************************************)
(* The batch.                                                              *)
(***************************************************************************)
Next ==
    \/ MB_Load \/ MB_SaveRecipes \/ MB_Refs \/ MB_RefsDone \/ MB_Loop \/ MB_NextVial
    \/ MB_Sleep \/ MB_Relid \/ MB_Done \/ MB_Again
    \/ GPP_Pickup \/ GPP_PickAndPlace \/ GPP_Park
    \/ RR_Lid \/ RR_Pickup \/ RR_Position \/ RR_Capture \/ RR_Park
    \/ FD_Lid \/ FD_Pickup \/ FD_Refill0 \/ FD_Refill1 \/ FD_Park \/ FD_Relid
    \/ DS_Lid \/ DS_Pickup \/ DS_Loop \/ DS_Dispense \/ DS_Update \/ DS_Reset
    \/ DS_Park \/ DS_Relid
    \/ DM_Lid \/ DM_Pickup \/ DM_Loop \/ DM_Dispense \/ DM_Update \/ DM_Reset \/ DM_Park
    \/ RD_Lid \/ RD_Pickup \/ RD_Reset0 \/ RD_Reset1 \/ RD_Park \/ RD_Relid
    \/ MV_Pickup \/ MV_Dispense \/ MV_Update \/ MV_Park \/ MV_Pickup2 \/ MV_Mix \/ MV_Park2
    \/ RS_Lid1 \/ RS_Lid2 \/ RS_Pickup \/ RS_Count \/ RS_Collect \/ RS_Due \/ RS_Wash
    \/ RS_Park \/ RS_Relid
    \/ RN_Init \/ RN_Loop \/ RN_PollSleep \/ RN_Fire \/ RN_After
    \/ RT_Loop \/ RT_PollSleep \/ RT_Fire \/ RT_Relid

Spec == Init /\ [][Next]_vars

\* The batch on any recipe file.
OddSpec == OddInit /\ [][Next]_vars

\* The interpreter runs the next statement whenever there is one.
FairSpec == Spec /\ WF_vars(Next)

(***************************************************************************)
(* The plunger channels on their own: a script that mounts a syringe tool  *)
(* and calls the public methods of Syringe and DoubleSyringe in any order, *)
(* with a volume of 1, 2 or MaxVolume mL, on any of the configurations.    *)
(* An exception ends the call, not the script.  hist remembers the last    *)
(* call and what it did.  The script mounts one tool and keeps it; having  *)
(* mounted the spectrometer it goes on (at "probe") with the spectrometer's *)
(* methods: capturing the references and reading well A1 of a sample plate.*)
(* Having mounted the gripper it goes on (at "level") with the level check *)
(* and the volume update that every Tool has, on one sample well.          *)
(***************************************************************************)
ChanVols == {1, 2, MaxVolume}
StartPositions == {0, 5}
DualDrives == {"E0", "E1"}

ChanInit ==
    /\ pc = <<"chan">>
    /\ status = "running"
    /\ err = ""
    /\ clock = 0
    /\ file = NoRecipe
    /\ exp = ExpInit
    /\ loc = LocInit
    /\ vol = [l \in SampleLabs |-> [w \in WellIds |-> WellInit.volume]]
    /\ nrt = [l \in SampleLabs |-> [w \in WellIds |-> WellInit.num_readings_taken]]
    /\ due = [l \in SampleLabs |-> [w \in WellIds |-> WellInit.next_spectrum_recordtime]]
    /\ lid \in LidConfigs
    /\ mounted = "none"
    /\ config \in Configs
    /\ \E p \in StartPositions : InBounds(p) /\ plunger = [d \in Drives |-> p]
    /\ refs = FALSE
    /\ csv = [w \in WellIds |-> <<>>]
    /\ well_recipes = [w \in WellIds |-> 0]
    /\ hist = [HistInit EXCEPT !.lids_on = \A l \in Labwares : lid[l]]
    /\ hw_secs = 1

\* requires_active_tool around a method of tool t whose body gives r.
Decorated(t, p, r) == IF NeedTool(t) # "" THEN Res(p, "ToolStateError", 0, NoneRet) ELSE r

\* A call of a public method: on drive d, at labware lab, with volume v and the
\* refill location rl ("none" if the method takes none or is given None).
Call(op, d, lab, v, rl) == [op |-> op, drive |-> d, lab |-> lab, vol |-> v, refill_loc |-> rl]

\* Mutant: a call on one channel of the dual syringe drags the other channel along.
Called_Coupled(c, r) ==
    /\ plunger' = [d \in Drives |->
                     IF d = c.drive \/ (d \in DualDrives /\ c.drive \in DualDrives)
                     THEN r.pos ELSE plunger[d]]
    /\ err' = r.err
    /\ hist' = [hist EXCEPT
                  !.op = c.op, !.drive = c.drive, !.lab = c.lab, !.vol = c.vol,
                  !.refill_loc = c.refill_loc,
                  !.before = IF c.op = "refill" THEN plunger[c.drive] ELSE 0,
                  !.streak = IF c.op = "refill" /\ r.err = ""
                             THEN (IF hist.op = "refill" /\ hist.drive = c.drive /\ hist.streak >= 1
                                   THEN 2 ELSE 1)
                             ELSE 0,
                  !.asked = r.asked, !.moved = r.moved, !.refills = r.refills,
                  !.ret = r.ret]

\* The call's result r becomes the state of the channel.
Called(c, r) ==
    /\ plunger' = [plunger EXCEPT ![c.drive] = r.pos]
    /\ err' = r.err
    /\ hist' = [hist EXCEPT
                  !.op = c.op, !.drive = c.drive, !.lab = c.lab, !.vol = c.vol,
                  !.refill_loc = c.refill_loc,
                  !.before = IF c.op = "refill" THEN plunger[c.drive] ELSE 0,
                  !.streak = IF c.op = "refill" /\ r.err = ""
                             THEN (IF hist.op = "refill" /\ hist.drive = c.drive /\ hist.streak >= 1
                                   THEN 2 ELSE 1)
                             ELSE 0,
                  !.asked = r.asked, !.moved = r.moved, !.refills = r.refills,
                  !.ret = r.ret]

\* Machine.pickup_tool (external contract)
CH_Mount ==
    /\ At("chan")
    /\ mounted = "none"
    /\ \E t \in {"single_syringe", "dual_syringe", "spectrometer", "gripper"} :
         /\ mounted' = t
         /\ pc' = IF t = "spectrometer" THEN <<"probe">>
                  ELSE IF t = "gripper" THEN <<"level">> ELSE pc
    /\ err' = ""
    /\ hist' = [hist EXCEPT !.op = "mount"]
    /\ UNCHANGED <<status, clock, file, exp, loc, vol, nrt, due, lid, plunger, refs, csv, well_recipes, hw_secs, config>>

\* Syringe.refill(refill_loc)
CH_Refill ==
    /\ At("chan")
    /\ \E answer \in BOOLEAN :
         Called(Call("refill", "E2", "solvents", 0, "solvents"),
                Decorated("single_syringe", plunger["E2"],
                          SyringeRefill(plunger["E2"], "solvents", answer)))
    /\ UNCHANGED <<pc, status, clock, file, exp, loc, vol, nrt, due, lid, mounted, refs, csv, well_recipes, hw_secs, config>>

\* Syringe.aspirate(vol, location)
CH_Aspirate ==
    /\ At("chan")
    /\ \E v \in ChanVols, answer \in BOOLEAN :
         Called(Call("aspirate", "E2", "solvents", v, "none"),
                Decorated("single_syringe", plunger["E2"],
                          SyringeAspirateAt(plunger["E2"], v, "solvents", answer)))
    /\ UNCHANGED <<pc, status, clock, file, exp, loc, vol, nrt, due, lid, mounted, refs, csv, well_recipes, hw_secs, config>>

\* Syringe.dispense(vol, sample_loc, refill_loc): _dispense, its value dropped
CH_Dispense ==
    /\ At("chan")
    /\ \E v \in ChanVols, refillLab \in {"none", "solvents"}, a1 \in BOOLEAN, a2 \in BOOLEAN :
         Called(Call("dispense", "E2", "samples2_ssy", v, refillLab),
                Decorated("single_syringe", plunger["E2"],
                          [SyringeDispense(plunger["E2"], v, "samples2_ssy", refillLab, a1, a2)
                             EXCEPT !.ret = NoneRet]))
    /\ UNCHANGED <<pc, status, clock, file, exp, loc, vol, nrt, due, lid, mounted, refs, csv, well_recipes, hw_secs, config>>

\* Syringe.mix(loc, num_cycles, vol)
CH_Mix ==
    /\ At("chan")
    /\ \E v \in ChanVols, ans \in [0..MixCycles -> BOOLEAN] :
         Called(Call("mix", "E2", "samples2_ssy", v, "none"),
                Decorated("single_syringe", plunger["E2"],
                          SyringeMix(plunger["E2"], v, "samples2_ssy", ans, MixCycles)))
    /\ UNCHANGED <<pc, status, clock, file, exp, loc, vol, nrt, due, lid, mounted, refs, csv, well_recipes, hw_secs, config>>

\* DoubleSyringe.refill(drive, refill_loc)
CH_DualRefill ==
    /\ At("chan")
    /\ \E d \in DualDrives :
         Called(Call("refill", d, "precursors", 0, "precursors"),
                Decorated("dual_syringe", plunger[d], DualRefillAt(plunger[d])))
    /\ UNCHANGED <<pc, status, clock, file, exp, loc, vol, nrt, due, lid, mounted, refs, csv, well_recipes, hw_secs, config>>

\* DoubleSyringe.aspirate_e0 / aspirate_e1
CH_DualAspirate ==
    /\ At("chan")
    /\ \E d \in DualDrives, v \in ChanVols :
         Called(Call("aspirate", d, "precursors", v, "none"),
                Decorated("dual_syringe", plunger[d], DualAspirate(plunger[d], v)))
    /\ UNCHANGED <<pc, status, clock, file, exp, loc, vol, nrt, due, lid, mounted, refs, csv, well_recipes, hw_secs, config>>

\* DoubleSyringe.dispense_e0 / dispense_e1
CH_DualDispense ==
    /\ At("chan")
    /\ \E d \in DualDrives, v \in ChanVols :
         Called(Call("dispense", d, "samples2_sy", v, "precursors"),
                Decorated("dual_syringe", plunger[d], DualDispense(plunger[d], v, TRUE)))
    /\ UNCHANGED <<pc, status, clock, file, exp, loc, vol, nrt, due, lid, mounted, refs, csv, well_recipes, hw_secs, config>>

\* DoubleSyringe.aspirate(vol, location)
CH_DualAspirateAt ==
    /\ At("chan")
    /\ \E v \in ChanVols :
         Called(Call("aspirate_at", "E0", "precursors", v, "none"),
                Decorated("dual_syringe", plunger["E0"], DualAspirateAt(plunger["E0"])))
    /\ UNCHANGED <<pc, status, clock, file, exp, loc, vol, nrt, due, lid, mounted, refs, csv, well_recipes, hw_secs, config>>

\* DoubleSyringe.dispense(vol, location)
CH_DualDispenseAt ==
    /\ At("chan")
    /\ \E v \in ChanVols :
         Called(Call("dispense_at", "E0", "samples2_sy", v, "none"),
                DualDispenseAt(plunger["E0"]))
    /\ UNCHANGED <<pc, status, clock, file, exp, loc, vol, nrt, due, lid, mounted, refs, csv, well_recipes, hw_secs, config>>

\* Spectrometer.set_dark and set_white
CH_SetRefs ==
    /\ At("probe")
    /\ refs' = TRUE
    /\ err' = ""
    /\ hist' = [hist EXCEPT !.op = "set_refs"]
    /\ UNCHANGED <<pc, status, clock, file, exp, loc, vol, nrt, due, lid, mounted, plunger, csv, well_recipes, hw_secs, config>>

\* Spectrometer.collect_spectrum(<well A1 of a sample labware>.top(..), elapsed_min, save = True)
CH_Collect ==
    /\ At("probe")
    /\ \E slot \in SampleSlots, elapsed_min \in {0, 7}, answer \in BOOLEAN :
         LET e == FirstErr(PositionProbe(Lab(slot, "spec"), answer),
                           IF refs THEN "" ELSE "RuntimeError")
         IN  /\ csv' = IF e = ""
                       THEN [csv EXCEPT ![csv_path("A1")] = AppendCol(@, elapsed_min)]
                       ELSE csv
             /\ err' = e
             /\ hist' = [hist EXCEPT !.op = "collect", !.lab = Lab(slot, "spec"),
                                     !.vol = elapsed_min]
    /\ UNCHANGED <<pc, status, clock, file, exp, loc, vol, nrt, due, lid, mounted, plunger, refs, well_recipes, hw_secs, config>>

\* Tool.check_liquid_level(<well A1 of samples2_ssy>, target_volume, is_dispense)
LevelWell == <<"samples2_ssy", "A1">>
CH_CheckLevel ==
    /\ At("level")
    /\ \E target_volume \in ChanVols, is_dispense \in BOOLEAN, answer \in BOOLEAN :
         LET r == check_liquid_level(vol[LevelWell[1]][LevelWell[2]], WellCapacity,
                                     target_volume, is_dispense, answer)
         IN  /\ vol' = [vol EXCEPT ![LevelWell[1]][LevelWell[2]] = r.vol]
             /\ err' = r.err
             /\ hist' = [hist EXCEPT !.op = IF is_dispense THEN "check_dispense"
                                            ELSE "check_aspirate",
                                     !.vol = target_volume, !.asked = r.asked]
    /\ UNCHANGED <<pc, status, clock, file, exp, loc, nrt, due, lid, mounted, plunger, refs, csv, well_recipes, hw_secs, config>>

\* Tool.update_currentLiquidVolume(volume, <the same well>, is_dispense), as long
\* as the Well's volume stays between 0 and WellCapacity + 2
CH_UpdateLevel ==
    /\ At("level")
    /\ \E volume \in {1, 2}, is_dispense \in BOOLEAN :
         LET v == UpdatedVolume(vol[LevelWell[1]][LevelWell[2]], volume, is_dispense)
         IN  /\ v \in 0..(WellCapacity + 2)
             /\ vol' = [vol EXCEPT ![LevelWell[1]][LevelWell[2]] = v]
             /\ err' = ""
             /\ hist' = [hist EXCEPT !.op = "update_level", !.vol = volume]
    /\ UNCHANGED <<pc, status, clock, file, exp, loc, nrt, due, lid, mounted, plunger, refs, csv, well_recipes, hw_secs, config>>

ChanNext ==
    \/ CH_Mount \/ CH_Refill \/ CH_Aspirate \/ CH_Dispense \/ CH_Mix
    \/ CH_DualRefill \/ CH_DualAspirate \/ CH_DualDispense
    \/ CH_DualAspirateAt \/ CH_DualDispenseAt
    \/ CH_SetRefs \/ CH_Collect
    \/ CH_CheckLevel \/ CH_UpdateLevel

ChanSpec == ChanInit /\ [][ChanNext]_vars

(***************************************************************************)
(* Properties.                                                             *)
(***************************************************************************)
FirstBatch == hist.batch = 1
Margin(slot, w, view) == due[Lab(slot, view)][w] - clock

\* C1: after every bookkeeping step of make_batch the sy, ssy and spec Well
\* of each vial hold the same currentLiquidVolume.
C1_VolumeSingleLedger ==
    \A s \in SampleSlots, w \in WellIds :
        /\ vol[Lab(s, "sy")][w] = vol[Lab(s, "ssy")][w]
        /\ vol[Lab(s, "ssy")][w] = vol[Lab(s, "spec")][w]

\* C2: the three views of a vial hold equal num_readings_taken and equal
\* next_spectrum_recordtime after every record_spectrum, so the due-time read
\* through the spec view is the one the vial was chosen by through the sy view.
C2_ScheduleSingleLedger ==
    \A s \in SampleSlots, w \in WellIds :
        /\ nrt[Lab(s, "sy")][w] = nrt[Lab(s, "ssy")][w]
        /\ nrt[Lab(s, "ssy")][w] = nrt[Lab(s, "spec")][w]
        /\ due[Lab(s, "sy")][w] = due[Lab(s, "ssy")][w]
        /\ due[Lab(s, "ssy")][w] = due[Lab(s, "spec")][w]

\* C3: whenever the scheduler asks for the nearest reading, the vial returned has
\* the minimum (due-time - now) among the recipe vials of every declared slot
\* whose due-time is non-null.
DueVials == { sv \in RecipeVials : due[Lab(sv[1], "sy")][sv[2]] # NoTime }
Consulting ==
    \/ At("rn_loop")
    \/ At("rt_loop") /\ ~all_recordings_taken
C3_NearestIsMinimum ==
    (Consulting /\ DueVials # {}) =>
        LET nr == nearest_spectrum_reading
        IN  IF nr.bound /\ nr.slot \in SampleSlots
            THEN \A sv \in DueVials : Margin(nr.slot, nr.vial, "sy") <= Margin(sv[1], sv[2], "sy")
            ELSE FALSE

\* C4: a reading of a vial is taken only after the vial's organic-precursor dispense
\* and mix in this run; a reading fired by the scheduler is of a vial whose T0
\* reading make_vial has already taken; the scheduler never polls for a vial whose
\* T0 has not been taken.
C4_SynthesisBeforeReading ==
    /\ At("rs_count") => <<loc.slot, loc.vial_name>> \in hist.mixed
    /\ (At("rs_count") /\ ReadingCalledFrom # "rn_init") => <<loc.slot, loc.vial_name>> \in hist.t0
    /\ (At("rn_poll") \/ At("rt_poll")) => <<loc.next_slot, loc.next_vial>> \in hist.t0

\* C5: when record_spectrum_if_needed returns to the synthesis loop, every vial
\* created so far, in any slot, is due no sooner than make_vial_time_mins from now.
C5_MarginOnReturn ==
    At("mb_sleep") =>
        \A sv \in hist.t0 : Margin(sv[1], sv[2], "spec") >= Mins(make_vial_time_mins)

AllVialsRead ==
    \A sv \in RecipeVials : \A v \in Views :
        nrt[Lab(sv[1], v)][sv[2]] >= exp.max_spectrum_records
C7_CompletionPredicate ==
    /\ (status = "done" \/ At("mb_done")) => AllVialsRead
    /\ At("rt_poll") => ~AllVialsRead
    /\ (At("rs_count") /\ ReadingCalledFrom = "rt_relid") => ~AllVialsRead
C7_Witness ==
    /\ status = "done"
    /\ hist.drain >= 2
    /\ NumVialsIn(1) = 2
    /\ AllVialsRead

\* C8: a run of make_batch on Scenario A (1 slot, 2 vials, interval 6 min, 3
\* records) ends with each vial read exactly 3 times, at elapsed 0, 6 and 12 min.
C8_ScenarioA ==
    (FirstBatch /\ file = ScenarioA /\ status # "running") =>
        /\ status = "done"
        /\ \A k \in 1..ScenarioA.nvials[1] :
             /\ csv[VialOrder[k]] = <<0, 6, 12>>
             /\ \A v \in Views : nrt[Lab(2, v)][VialOrder[k]] = 3

\* C9: on a recipe with interval <= make_vial_time_mins, make_batch never gets past
\* its check and leaves the Experiment, the ledger, the tools and the files as
\* they were.
C9_PreconditionNoSideEffects ==
    (FirstBatch /\ file.interval <= make_vial_time_mins) =>
        /\ pc = <<"mb_load">>
        /\ exp = ExpInit
        /\ \A l \in SampleLabs, w \in WellIds :
             vol[l][w] = 0 /\ nrt[l][w] = 0 /\ due[l][w] = NoTime
        /\ mounted = "none"
        /\ \A d \in Drives : plunger[d] = 0
        /\ \A w \in WellIds : csv[w] = <<>> /\ well_recipes[w] = 0

\* C10: after a refill (Syringe.refill, DoubleSyringe.refill on either drive) the
\* drive is at max_range - 10 mm whatever its position was; after a second refill
\* in a row it is where the first one left it.
C10_RefillPosition ==
    (hist.op = "refill" /\ err = "") =>
        /\ plunger[hist.drive] = max_range - PrimingMm
        /\ hist.streak = 2 => plunger[hist.drive] = hist.before
C10_Witness ==
    /\ hist.op = "refill"
    /\ err = ""
    /\ hist.drive = "E2"
    /\ hist.streak = 2
    /\ plunger["E2"] = max_range - PrimingMm

(***************************************************************************)
(* Properties of the plunger channels, the lid protocol and the tools.     *)
(***************************************************************************)
ToolOf(d) == IF d = "E2" THEN "single_syringe" ELSE "dual_syringe"
FluidOps == {"refill", "aspirate", "dispense", "mix"}
CallOps == FluidOps \cup {"aspirate_at", "dispense_at"}
Travel(v) == v * mm_to_ml
\* The step is a call of method op on a mounted tool, at labware without a lid
\* flag set, from a plunger position within the range, on a channel whose range
\* is longer than the priming distance.
PlainCall(op) ==
    /\ hist'.op = op
    /\ max_range - PrimingMm >= min_range
    /\ mounted = ToolOf(hist'.drive)
    /\ ~lid[hist'.lab]
    /\ hist'.refill_loc # "none" => ~lid[hist'.refill_loc]
    /\ InBounds(plunger[hist'.drive])

\* C11: a dispense (with a refill location) of more than the channel holds, but of
\* no more than its capacity max_range - min_range, makes exactly one refill and
\* then completes; a dispense that fits what the channel holds makes no refill
\* and completes.
C11_RefillOnceThenDispense ==
    [][(PlainCall("dispense") /\ hist'.refill_loc # "none") =>
         LET d == hist'.drive
             content_mm == plunger[d] - min_range
         IN  /\ (Travel(hist'.vol) > content_mm /\ Travel(hist'.vol) <= max_range - min_range)
                  => (hist'.refills = 1 /\ err' = "")
             /\ Travel(hist'.vol) <= content_mm
                  => (hist'.refills = 0 /\ err' = ""
                      /\ plunger'[d] = plunger[d] - Travel(hist'.vol))]_vars

\* C12: a dispense of more than the channel's capacity max_range - min_range
\* fails with the range error and leaves every plunger where it was.
C12_OverCapacityLeavesPosition ==
    [][(PlainCall("dispense") /\ Travel(hist'.vol) > max_range - min_range) =>
         (err' = "ToolStateError" /\ plunger' = plunger)]_vars

\* C13: an aspirate moves the plunger up by the smaller of the requested travel
\* and the headroom max_range - position, raises nothing, and returns the volume
\* that travel stands for (zero when there is no headroom).
C13_AspirateCapped ==
    [][PlainCall("aspirate") =>
         LET d == hist'.drive
             headroom_mm == max_range - plunger[d]
             moved_mm == IF Travel(hist'.vol) < headroom_mm THEN Travel(hist'.vol)
                         ELSE headroom_mm
         IN  /\ err' = ""
             /\ plunger'[d] = plunger[d] + moved_mm
             /\ hist'.ret = VolumeRet(moved_mm)]_vars

\* C14: whatever the configuration, and whatever aspirate, dispense, refill and mix
\* calls are made from a position within the range, every plunger stays within
\* [min_range, max_range].
C14_PlungerInRange == \A d \in Drives : InBounds(plunger[d])

\* C15: when the operator declines a lid override, the error is raised before the
\* plunger has moved, the lid flags, ledger and mounted tool are as they were,
\* and the batch halts.
C15_DeclinedOverrideHalts ==
    [][(status = "running" /\ err' = "OverridableError") =>
         /\ status' = "failed"
         /\ plunger' = plunger
         /\ lid' = lid
         /\ ledger' = ledger
         /\ mounted' = mounted]_vars

\* C16: a fluid call that went on after the operator confirmed a lid override
\* leaves the target labware's has_lid_on_top at the expected value (False).
C16_OverrideResyncsLid ==
    [][(hist'.op \in FluidOps /\ hist'.asked >= 1 /\ err' = "") => ~lid'[hist'.lab]]_vars

\* C17: every fluid-handling call of a mounted syringe (single or dual) whose
\* target labware has its lid flag set puts the override prompt to the operator.
C17_EveryFluidCallChecksLid ==
    [][(hist'.op \in FluidOps /\ mounted = ToolOf(hist'.drive) /\ lid[hist'.lab])
         => hist'.asked >= 1]_vars

\* C18: in a run that starts with the lids on, has_lid_on_top of the reservoir or
\* rack is False whenever a syringe or the probe is about to work on it (the
\* gripper took the lid off first).
C18_LidOffAtInteraction ==
    hist.lids_on =>
        /\ (At("rr_pos") \/ At("ds_disp") \/ At("ds_reset") \/ At("rs_wash")) => ~lid["solvents"]
        /\ (At("fd_refill0") \/ At("fd_refill1") \/ At("dm_disp") \/ At("mv_disp")
              \/ At("rd_e0") \/ At("rd_e1")) => ~lid["precursors"]
        /\ At("rs_collect") => ~lid[Lab(loc.slot, "spec")]

\* C19: pickup_tool is reached only with no tool mounted and park_tool only with
\* one mounted, on every path of make_batch.
PickupPoints ==
    {"gpp_pickup", "rr_pickup", "fd_pickup", "ds_pickup", "dm_pickup", "rd_pickup",
     "mv_pickup", "mv_pickup2", "rs_pickup"}
ParkPoints ==
    {"gpp_park", "rr_park", "fd_park", "ds_park", "dm_park", "rd_park",
     "mv_park", "mv_park2", "rs_park"}
C19_OneToolMounted ==
    /\ \A l \in PickupPoints : At(l) => mounted = "none"
    /\ \A l \in ParkPoints : At(l) => mounted \in Tools
C19_Witness ==
    /\ At("rs_pickup")
    /\ mounted = "none"
    /\ hist.drain >= 1
    /\ ReadingCalledFrom = "rt_relid"

\* C20: a call of a method of a tool that is not mounted raises the tool-state
\* error, asks the operator nothing, and moves neither the head nor a plunger nor
\* changes a lid flag or the ledger.
C20_InactiveToolRejected ==
    [][(hist'.op \in CallOps /\ mounted # ToolOf(hist'.drive)) =>
         /\ err' = "ToolStateError"
         /\ hist'.asked = 0
         /\ ~hist'.moved
         /\ plunger' = plunger
         /\ lid' = lid
         /\ ledger' = ledger]_vars

(***************************************************************************)
(* nearest_spectrum_reading on its own: an Experiment that has loaded a    *)
(* recipe, whose vials are due at TieDue, a second or two later, or not at *)
(* all, is asked for the nearest reading, again and again.  The method     *)
(* reads datetime.now() once for every vial it looks at: the clock may     *)
(* tick between two of the reads (MaxTicks ticks are followed in a run).   *)
(***************************************************************************)
\* The scan of one slot, now[k] being the clock read for the k-th vial.
RECURSIVE NearestScanAt(_, _, _, _)
NearestScanAt(slot, k, acc, now) ==
    IF k > NumVialsIn(1) THEN acc
    ELSE LET w == VialOrder[k]
             t == due[Lab(slot, "sy")][w]
             time_diff == t - now[k]
         IN  IF t # NoTime /\ time_diff < acc.diff
             THEN NearestScanAt(slot, k + 1,
                      [diff |-> time_diff, slot |-> slot, vial |-> w, bound |-> TRUE], now)
             ELSE NearestScanAt(slot, k + 1, acc, now)

TieInit ==
    /\ pc = <<"tie">>
    /\ status = "running"
    /\ err = ""
    /\ clock = 0
    /\ file \in { f \in Recipes : PreconditionHolds(f.interval) }
    /\ exp = [data |-> file, spectrum_record_interval_mins |-> file.interval,
              max_spectrum_records |-> file.maxrec, slot_names |-> file.slot_names,
              need_spectrum_refs |-> FALSE]
    /\ loc = LocInit
    /\ vol = [l \in SampleLabs |-> [w \in WellIds |-> WellInit.volume]]
    /\ \E t \in [SampleSlots \X WellIds -> {NoTime, TieDue, TieDue + 1, TieDue + 2}] :
         /\ \A sv \in (SampleSlots \X WellIds) \ RecipeVials : t[sv] = NoTime
         /\ due = [l \in SampleLabs |-> [w \in WellIds |->
                     t[<<CHOOSE s \in SampleSlots : \E v \in Views : l = Lab(s, v), w>>]]]
         /\ nrt = [l \in SampleLabs |-> [w \in WellIds |->
                     IF due[l][w] = NoTime THEN 0 ELSE 1]]
    /\ lid = [l \in Labwares |-> FALSE]
    /\ mounted = "none"
    /\ plunger = [d \in Drives |-> 0]
    /\ refs = TRUE
    /\ csv = [w \in WellIds |-> <<>>]
    /\ well_recipes = [w \in WellIds |-> 0]
    /\ hist = HistInit
    /\ hw_secs = 1
    /\ config = BatchConfig

\* next_slot, next_vial = self.nearest_spectrum_reading(), the clock ticking before
\* the read for vial number tick_at (0: no tick during the call)
NSR_Call ==
    /\ At("tie")
    /\ \E tick_at \in {0} \cup 2..Len(VialOrder) :
         LET tick == IF tick_at = 0 THEN 0 ELSE 1
             now  == [k \in 1..Len(VialOrder) |->
                        IF tick_at # 0 /\ k >= tick_at THEN clock + 1 ELSE clock]
             nr   == IF NumSlots = 0 THEN smallest_timediff
                     ELSE NearestScanAt(SlotAt(1), 1, smallest_timediff, now)
         IN  /\ hist.ticks + tick <= MaxTicks
             /\ tick_at <= NumVialsIn(1)
             /\ clock' = clock + tick
             /\ loc' = IF nr.bound
                       THEN [loc EXCEPT !.next_slot = nr.slot, !.next_vial = nr.vial]
                       ELSE loc
             /\ err' = IF nr.bound THEN "" ELSE "UnboundLocalError"
             /\ hist' = [hist EXCEPT !.op = "nearest", !.ticks = @ + tick]
    /\ UNCHANGED <<pc, status, file, exp, vol, nrt, due, lid, mounted, plunger, refs, csv, well_recipes, hw_secs, config>>

TieSpec == TieInit /\ [][NSR_Call]_vars

(***************************************************************************)
(* Claims C21..C30: references, the reading action, the time series, the   *)
(* order of operations, priming, the ledger across batches, the level      *)
(* check, channel independence and the tie-break.                          *)
(***************************************************************************)
ReadingSteps == {"rs_count", "rs_collect", "rs_due", "rs_wash"}
Reading == Len(pc) >= 1 /\ pc[1] \in ReadingSteps

\* A step that calls collect_spectrum: record_spectrum's in a batch, the script's
\* on the channel.
CollectCalled ==
    \/ At("rs_collect") /\ status = "running"
    \/ At("probe") /\ hist'.op = "collect"

ReadVial(l, w) == w = loc.vial_name /\ \E v \in Views : l = Lab(loc.slot, v)
OthersKept ==
    \A l \in SampleLabs, w \in WellIds :
        ~ReadVial(l, w) => nrt'[l][w] = nrt[l][w] /\ due'[l][w] = due[l][w]

\* C22: a reading action adds exactly one to the vial's reading count, stores one
\* measurement under the elapsed-minutes key, sets the vial's due-time (on every
\* view of the vial) to the time the capture ended plus the interval, then washes
\* the probe; it leaves the count and due-time of every other vial alone.
C22_ReadingEffect ==
    [][ /\ (At("rs_count") /\ pc' # pc) =>
              /\ \A v \in Views : nrt'[Lab(loc.slot, v)][loc.vial_name]
                                    = nrt[Lab(loc.slot, v)][loc.vial_name] + 1
              /\ due' = due
        /\ (At("rs_collect") /\ pc' # pc) =>
              /\ HasCol(csv'[loc.vial_name], ElapsedMin(loc.slot, loc.vial_name))
              /\ nrt' = nrt /\ due' = due
        /\ (At("rs_due") /\ pc' # pc) =>
              /\ \A v \in Views : due'[Lab(loc.slot, v)][loc.vial_name] = NextRecordTime(clock)
              /\ nrt' = nrt
              /\ pc'[1] = "rs_wash"
        /\ (At("rs_wash") \/ At("rs_park") \/ At("rs_relid")) => nrt' = nrt /\ due' = due
        /\ Reading => OthersKept ]_vars

\* C23: the k-th reading of a vial is stored under the key (k - 1) x interval as a
\* new column of the vial's series: the key was not there before, and afterwards
\* the series has exactly k columns.
C23_NewColumnPerReading ==
    [][ (At("rs_collect") /\ pc' # pc) =>
          LET k == nrt[Lab(loc.slot, "spec")][loc.vial_name]
              key == (k - 1) * exp.spectrum_record_interval_mins
          IN  /\ ~HasCol(csv[loc.vial_name], key)
              /\ HasCol(csv'[loc.vial_name], key)
              /\ Len(csv'[loc.vial_name]) = k ]_vars

\* Recipe order: slot order, then order within the slot.
SlotIdx(s) == CHOOSE i \in 1..NumSlots : SlotAt(i) = s
VialIdx(w) == CHOOSE k \in 1..Len(VialOrder) : VialOrder[k] = w
Before(a, b) ==
    \/ SlotIdx(a[1]) < SlotIdx(b[1])
    \/ SlotIdx(a[1]) = SlotIdx(b[1]) /\ VialIdx(a[2]) < VialIdx(b[2])

\* The vial at position k of slot number i of the recipe, and what the running
\* batch has done to it so far.
VialAt(i, k) == <<SlotAt(i), VialOrder[k]>>
Got(op, i, k) == <<op, SlotAt(i), VialOrder[k]>> \in hist.dispensed
Done(op, i, k) ==
    IF op = "mix" THEN VialAt(i, k) \in hist.mixed
    ELSE IF op = "t0" THEN VialAt(i, k) \in hist.t0
    ELSE Got(op, i, k)

\* The vials that got operation op are the first ones of the recipe order.
InRecipeOrder(op) ==
    \A i \in 1..NumSlots : \A k \in 1..NumVialsIn(i) :
        Done(op, i, k) =>
            \A i2 \in 1..i : \A k2 \in 1..NumVialsIn(i2) :
                (i2 < i \/ k2 < k) => Done(op, i2, k2)

\* The operations done so far respect the order of the batch: per vial solvent,
\* metal precursor, organic precursor, mix, T0 reading; per operation the
\* recipe order of the vials.
OrderKept ==
    /\ \A t \in hist.dispensed :
          \E i \in 1..NumSlots : \E k \in 1..NumVialsIn(i) :
              t[2] = SlotAt(i) /\ t[3] = VialOrder[k]
    /\ \A i \in 1..NumSlots : \A k \in 1..NumVialsIn(i) :
          /\ Done("metal", i, k) => Done("solvent", i, k)
          /\ Done("organic", i, k) => Done("metal", i, k)
          /\ Done("mix", i, k) => Done("organic", i, k)
          /\ Done("t0", i, k) => Done("mix", i, k)
    /\ hist.mixed \subseteq RecipeVials /\ hist.t0 \subseteq RecipeVials
    /\ \A op \in {"solvent", "metal", "organic", "mix", "t0"} : InRecipeOrder(op)

\* C24: in a batch every vial gets solvent, then metal precursor, then organic
\* precursor, then the mix, then its T0 reading, and only then is the scheduler
\* consulted for it; and each of these operations goes through the vials in
\* recipe order.  Stated on the steps: a step that dispenses, mixes, takes a T0
\* reading or loads a recipe leaves the order kept, and a step that comes to
\* the scheduler does so for a vial that has its T0 reading.
C24_OperationOrder ==
    [][ /\ At("rn_init")' => <<loc'.slot, loc'.vial_name>> \in hist'.t0
        /\ \/ /\ hist'.dispensed = hist.dispensed
              /\ hist'.mixed = hist.mixed
              /\ hist'.t0 = hist.t0
              /\ exp' = exp
           \/ OrderKept' ]_vars

\* The scheduler is consulted after the last vial of a two-slot recipe, every vial
\* having gone through all five operations.
C24_Witness ==
    /\ At("rn_init")
    /\ NumSlots = 2
    /\ hist.t0 = RecipeVials
    /\ \A i \in 1..NumSlots : \A k \in 1..NumVialsIn(i) : Done("solvent", i, k)

\* The batch has started putting fluid into vials.
DispensingBegun ==
    \/ hist.dispensed # {}
    \/ \E k \in 1..Len(pc) : pc[k] \in {"ds_disp", "dm_disp", "mv_disp"}

\* C25: fill_dual_syringe primes each channel of the dual syringe exactly once
\* per batch, before the first dispense into a vial, and leaves it at
\* max_range - PrimingMm, where it stays until the channel's first dispense.
C25_PrimedOnceBeforeDispense ==
    /\ \A d \in {"E0", "E1"} : hist.primed[d] <= 1
    /\ DispensingBegun => \A d \in {"E0", "E1"} : hist.primed[d] = 1
    /\ (hist.primed["E0"] = 1 /\ status = "running"
                               /\ \A t \in hist.dispensed : t[1] # "metal")
          => plunger["E0"] = max_range - PrimingMm
    /\ (hist.primed["E1"] = 1 /\ status = "running"
                               /\ \A t \in hist.dispensed : t[1] # "organic")
          => plunger["E1"] = max_range - PrimingMm

\* The second batch dispenses its first solvent, both channels primed once in it.
C25_Witness ==
    /\ At("ds_disp")
    /\ hist.batch = 2
    /\ hist.primed = [d \in {"E0", "E1"} |-> 1]
    /\ plunger["E0"] = max_range - PrimingMm
    /\ plunger["E1"] = max_range - PrimingMm

\* What the recipe has make_batch put into the vial at position j of a slot.
RecipeVolume(j) == VialVols[j].s + VialVols[j].m + VialVols[j].o

\* C26: a vial's ledger entry starts a batch empty: at its first dispense of the
\* batch (the solvent) every view has volume 0, no due-time and no reading; and
\* when make_vial has returned (T0 taken) its reading count is 1 on every view and
\* its volume, on the view every dispense is booked on, is what this batch put in.
C26_LedgerResetAtCreation ==
    /\ At("ds_disp") =>
          \A v \in Views :
              /\ vol[Lab(BoundSlot(loc.i), v)][VialOrder[loc.j]] = WellInit.volume
              /\ due[Lab(BoundSlot(loc.i), v)][VialOrder[loc.j]] = WellInit.next_spectrum_recordtime
              /\ nrt[Lab(BoundSlot(loc.i), v)][VialOrder[loc.j]] = WellInit.num_readings_taken
    /\ At("rn_init") =>
          /\ \A v \in Views : nrt[Lab(loc.slot, v)][loc.vial_name] = 1
          /\ vol[Lab(loc.slot, "spec")][loc.vial_name] = RecipeVolume(loc.j)

\* Every vial the deck can hold, and the ones record_spectrum has counted a reading for.
Vials == SampleSlots \X WellIds
HasReadings(sv) == nrt[Lab(sv[1], "spec")][sv[2]] > 0

\* C27: vials are told apart by (slot, well-id): the series a reading is stored in
\* is not the series of any other vial that has readings, and after
\* save_vial_recipes the recipe kept for each vial of the recipe is its own.
C27_SeriesPerVial ==
    [][ /\ (At("rs_collect") /\ pc' # pc) =>
              \A sv \in Vials \ {<<loc.slot, loc.vial_name>>} :
                  HasReadings(sv) => csv_path(sv[2]) # csv_path(loc.vial_name)
        /\ (At("mb_save") /\ pc' # pc) =>
              \A sv \in RecipeVials : well_recipes'[sv[2]] = sv[1] ]_vars

\* A step that calls check_liquid_level on the script's well.
LevelChecked == At("level") /\ hist'.op \in {"check_dispense", "check_aspirate"}
LevelVol == vol[LevelWell[1]][LevelWell[2]]

OtherDrive(d) == IF d = "E0" THEN "E1" ELSE "E0"

LeastMargin ==
    { a \in DueVials : \A b \in DueVials : Margin(a[1], a[2], "sy") <= Margin(b[1], b[2], "sy") }

IsNearest(sv) ==
    /\ sv \in DueVials
    /\ \A o \in DueVials : Margin(sv[1], sv[2], "spec") <= Margin(o[1], o[2], "spec")
NearestMargin == Margin((CHOOSE sv \in DueVials : IsNearest(sv))[1],
                        (CHOOSE sv \in DueVials : IsNearest(sv))[2], "spec")

\* One evaluation of the yield decision (a pass of the loop that does not raise).
Deciding == At("rn_loop") /\ DueVials # {} /\ status' = "running"

\* C31: in record_spectrum_if_needed, while the nearest margin is below
\* make_vial_time_mins the scheduler goes on to poll for the nearest vial and fires
\* its reading no earlier than 18 s before its due-time, then evaluates again; when
\* the nearest margin is at least make_vial_time_mins it returns without a reading.
C31_YieldDecision ==
    [][ /\ (Deciding /\ NearestMargin < Mins(make_vial_time_mins)) =>
              /\ At("rn_poll")'
              /\ IsNearest(<<loc'.next_slot, loc'.next_vial>>)
        /\ (Deciding /\ NearestMargin >= Mins(make_vial_time_mins)) => pc' = Tail(pc)
        /\ (At("rn_poll") /\ At("rs_lid1")') =>
              /\ clock >= SpecDue(loc.next_slot, loc.next_vial) - SynthPreWindowSecs
              /\ pc' = <<"rs_lid1", "rn_after">> \o Tail(pc)
        /\ (At("rn_after") /\ status' = "running") => At("rn_loop")' ]_vars

\* C32: in record_spectrum_till_end every reading is fired no earlier than the
\* draining pre-window before the due-time of the vial polled for, and that
\* pre-window is shorter than the one record_spectrum_if_needed polls with.
C32_DrainPreWindow ==
    [][ (At("rt_poll") /\ At("rs_lid1")') =>
            /\ clock >= SpecDue(loc.next_slot, loc.next_vial) - DrainPreWindowSecs
            /\ DrainPreWindowSecs < SynthPreWindowSecs ]_vars

\* C33: no vial of the recipe is ever read more often than max_spectrum_records,
\* neither by the readings interleaved with the synthesis nor by the draining loop.
C33_NoOverReading ==
    (FirstBatch /\ exp.data # NoRecipe) =>
        \A sv \in RecipeVials : \A v \in Views :
            nrt[Lab(sv[1], v)][sv[2]] <= exp.max_spectrum_records

C35_FairRotation ==
    [][ (FirstBatch /\ At("rs_count") /\ At("rs_collect")') =>
            hist.unread[<<loc.slot, loc.vial_name>>] = {} ]_vars

\* record_spectrum is between its count and its due-time write.
MidReading == At("rs_collect") \/ At("rs_due")

\* C36: outside a reading in progress, and after a reading that failed part-way,
\* num_readings_taken of every vial equals the number of readings stored for it and
\* the number of times its due-time was written.
C36_CountMatchesRecords ==
    ~MidReading =>
        \A sv \in SampleSlots \X WellIds : \A v \in Views :
            /\ nrt[Lab(sv[1], v)][sv[2]] = hist.records[sv]
            /\ nrt[Lab(sv[1], v)][sv[2]] = hist.rewrites[sv]

\* C37: a call of check_liquid_level that finds no mismatch leaves the well's
\* volume as it was, for a dispense and for an aspirate; the volume changes only
\* when the operator has confirmed an override.
C37_LevelCheckFrame ==
    [][ LevelChecked =>
          /\ LevelFits(LevelVol, WellCapacity, hist'.vol, hist'.op = "check_dispense")
                => vol' = vol
          /\ vol' # vol => (hist'.asked = 1 /\ err' = "") ]_vars

\* C38: a mix that completes without error, started with the plunger anywhere in
\* [min_range, max_range], leaves the plunger where it was and makes no refill.
C38_MixPositionNeutral ==
    [][ (At("chan") /\ hist'.op = "mix" /\ err' = "" /\ InBounds(plunger["E2"])) =>
            /\ plunger'["E2"] = plunger["E2"]
            /\ hist'.refills = 0 ]_vars

\* The recipe vial the running method is working on: the loop variables of the two
\* dispense passes, the arguments of make_vial and record_spectrum.
CurrentVial ==
    IF \E l \in {"ds_disp", "ds_upd", "dm_disp", "dm_upd"} : At(l)
    THEN <<SlotAt(loc.i), VialOrder[loc.j]>>
    ELSE <<loc.slot, loc.vial_name>>

\* Well w of labware l belongs to the vial sv.
WellOf(sv, l, w) ==
    /\ sv[1] \in SampleSlots
    /\ w = sv[2]
    /\ \E v \in Views : l = Lab(sv[1], v)

\* C39: every dispense, mix, volume update and reading made for a recipe vial
\* (slot s, well w) goes to well w of the sample labware of slot s, and a step
\* made for a vial of a slot without sample labware fails.
C39_SlotRouting ==
    [][ /\ \A l \in SampleLabs, w \in WellIds :
              (vol'[l][w] # vol[l][w] \/ nrt'[l][w] # nrt[l][w] \/ due'[l][w] # due[l][w])
                  => WellOf(CurrentVial, l, w)
        /\ \A t \in hist'.dispensed \ hist.dispensed : <<t[2], t[3]>> = CurrentVial
        /\ \A sv \in hist'.mixed \ hist.mixed : sv = CurrentVial
        /\ (\E l \in {"ds_disp", "ds_upd", "dm_disp", "dm_upd", "mv_disp", "mv_upd",
                      "mv_mix", "rs_count", "rs_collect", "rs_due"} : At(l))
              => (CurrentVial[1] \in SampleSlots \/ status' = "failed") ]_vars

\* C40: whenever make_batch asks for the nearest reading, the search returns a
\* (slot, vial) pair, and that vial has a due-time.
C40_NearestDefined ==
    Consulting =>
        LET nr == nearest_spectrum_reading
        IN  /\ nr.bound
            /\ nr.slot \in SampleSlots
            /\ SpecDue(nr.slot, nr.vial) # NoTime

====
